---- MODULE Spec2Model ----
(***************************************************************************)
(* Model of the callsign subsystem of oeradio-mcp: the lookup/fallback     *)
(* engine with its two caches, the availability checker, and the batch     *)
(* rebuild job (normalise, validate, promote).                             *)
(*                                                                         *)
(* Strings are modelled as sequences of one-character strings so that      *)
(* toUpperCase, trim, split and the regular expressions are computed, not  *)
(* assumed.  Time is the value of Date.now() in milliseconds.              *)
(***************************************************************************)
EXTENDS Integers, Sequences, FiniteSets, TLC

\* ------------------------------------------------------------------------
\* Characters and strings
\* ------------------------------------------------------------------------
UpperSeq ==
    <<"A","B","C","D","E","F","G","H","I","J","K","L","M","N","O","P","Q","R","S","T","U","V","W","X","Y","Z">>

LowerSeq ==
    <<"a","b","c","d","e","f","g","h","i","j","k","l","m","n","o","p","q","r","s","t","u","v","w","x","y","z">>

DigitSeq ==
    <<"0","1","2","3","4","5","6","7","8","9">>

UpperLetters == { UpperSeq[i] : i \in 1..26 }

LowerLetters == { LowerSeq[i] : i \in 1..26 }

Digits == { DigitSeq[i] : i \in 1..10 }

\* JavaScript white space as it occurs in the inputs: blank and tab
WhiteSpace == { " ", "\t" }

IsWs(c) == c \in WhiteSpace

\* String.prototype.toUpperCase / toLowerCase, character by character
UpperChar(c) ==
    IF c \in LowerLetters
    THEN UpperSeq[CHOOSE i \in 1..26 : LowerSeq[i] = c]
    ELSE c

LowerChar(c) ==
    IF c \in UpperLetters
    THEN LowerSeq[CHOOSE i \in 1..26 : UpperSeq[i] = c]
    ELSE c

toUpperCase(s) == [i \in 1..Len(s) |-> UpperChar(s[i])]

toLowerCase(s) == [i \in 1..Len(s) |-> LowerChar(s[i])]

\* String.prototype.trim: drop leading and trailing white space
RECURSIVE trimStart(_)
trimStart(s) ==
    IF s # <<>> /\ IsWs(Head(s)) THEN trimStart(Tail(s)) ELSE s

RECURSIVE trimEnd(_)
trimEnd(s) ==
    IF s # <<>> /\ IsWs(s[Len(s)]) THEN trimEnd(SubSeq(s, 1, Len(s) - 1)) ELSE s

trim(s) == trimEnd(trimStart(s))

startsWith(s, p) ==
    /\ Len(s) >= Len(p)
    /\ SubSeq(s, 1, Len(p)) = p

\* String.prototype.includes
includes(s, p) ==
    \E i \in 1..(Len(s) - Len(p) + 1) : SubSeq(s, i, i + Len(p) - 1) = p

AllIn(s, chars) == \A i \in 1..Len(s) : s[i] \in chars

\* Decimal digit of a character, and template-literal rendering of a number
DigitVal(c) == (CHOOSE i \in 1..10 : DigitSeq[i] = c) - 1

RECURSIVE NumToStr(_)
NumToStr(n) ==
    IF n < 10 THEN <<DigitSeq[n + 1]>>
    ELSE NumToStr(n \div 10) \o <<DigitSeq[(n % 10) + 1]>>

\* s.split(/\s+/): cut at every maximal run of white space; a leading or
\* trailing run leaves an empty first or last token
RECURSIVE SplitWsFrom(_, _, _, _, _)
SplitWsFrom(s, i, cur, out, inWs) ==
    IF i > Len(s) THEN Append(out, cur)
    ELSE IF IsWs(s[i])
         THEN IF inWs THEN SplitWsFrom(s, i + 1, cur, out, TRUE)
              ELSE SplitWsFrom(s, i + 1, <<>>, Append(out, cur), TRUE)
         ELSE SplitWsFrom(s, i + 1, Append(cur, s[i]), out, FALSE)

splitWs(s) == SplitWsFrom(s, 1, <<>>, <<>>, FALSE)

\* s.split(sep) for a one-character separator
RECURSIVE SplitCharFrom(_, _, _, _, _)
SplitCharFrom(s, sep, i, cur, out) ==
    IF i > Len(s) THEN Append(out, cur)
    ELSE IF s[i] = sep
         THEN SplitCharFrom(s, sep, i + 1, <<>>, Append(out, cur))
         ELSE SplitCharFrom(s, sep, i + 1, Append(cur, s[i]), out)

splitChar(s, sep) == SplitCharFrom(s, sep, 1, <<>>, <<>>)

\* parts.join(sep)
RECURSIVE join(_, _)
join(parts, sep) ==
    IF parts = <<>> THEN <<>>
    ELSE IF Len(parts) = 1 THEN parts[1]
    ELSE parts[1] \o sep \o join(Tail(parts), sep)

\* parseInt(s, 10): skip leading white space, an optional sign, then the
\* longest run of digits; <<>> stands for NaN, <<n>> for the number n
RECURSIVE DigitsPrefixVal(_, _, _)
DigitsPrefixVal(s, i, acc) ==
    IF i <= Len(s) /\ s[i] \in Digits
    THEN DigitsPrefixVal(s, i + 1, 10 * acc + DigitVal(s[i]))
    ELSE acc

parseInt(s) ==
    LET t == trimStart(s)
        neg == t # <<>> /\ Head(t) = "-"
        u == IF t # <<>> /\ Head(t) \in {"-", "+"} THEN Tail(t) ELSE t
    IN IF u = <<>> \/ Head(u) \notin Digits THEN <<>>
       ELSE <<(IF neg THEN -1 ELSE 1) * DigitsPrefixVal(u, 1, 0)>>

\* a.localeCompare(b) < 0 on callsigns (upper-case letters and digits): the
\* collation puts digits before letters and orders each group as ASCII does
CharRank(c) ==
    IF c \in Digits THEN DigitVal(c)
    ELSE IF c \in UpperLetters THEN 10 + (CHOOSE i \in 1..26 : UpperSeq[i] = c)
    ELSE 0

RECURSIVE StrLess(_, _)
StrLess(a, b) ==
    IF b = <<>> THEN FALSE
    ELSE IF a = <<>> THEN TRUE
    ELSE IF CharRank(Head(a)) # CharRank(Head(b))
         THEN CharRank(Head(a)) < CharRank(Head(b))
         ELSE StrLess(Tail(a), Tail(b))

\* ------------------------------------------------------------------------
\* Normalizer (parser/normalize.ts)
\* ------------------------------------------------------------------------
HiddenMarker == <<"*","-","*","-","*">>

Titles == {
    <<"I","N","G">>,
    <<"I","N","G",".">>,
    <<"M","A","G">>,
    <<"M","A","G",".">>,
    <<"D","R">>,
    <<"D","R",".">>,
    <<"D","I","P","L">>,
    <<"D","I","P","L",".">>,
    <<"D","I","P","L",".","-","I","N","G">>,
    <<"D","I","P","L",".","-","I","N","G",".">>,
    <<"J","U","N">>,
    <<"J","U","N",".">>,
    <<"S","E","N">>,
    <<"S","E","N",".">>,
    <<"B","A","K","K">>,
    <<"B","A","K","K",".">>,
    <<"B","S","C">>,
    <<"B","S","C",".">>,
    <<"M","S","C">>,
    <<"M","S","C",".">>,
    <<"M","B","A">>,
    <<"P","R","O","F">>,
    <<"P","R","O","F",".">>,
    <<"U","N","I","V",".","-","P","R","O","F">>,
    <<"U","N","I","V",".","-","P","R","O","F",".">>,
    <<"D","K","F","M">>,
    <<"D","K","F","M",".">>,
    <<"O","I","N","G">>,
    <<"O","I","N","G",".">>,
    <<"B","A","U","I","N","G">>,
    <<"B","A","U","I","N","G",".">>,
    <<"B","M","S","T","R">>,
    <<"B","M","S","T","R",".">> }

LowerPrefixes == {
    <<"v","o","n">>,
    <<"v","a","n">>,
    <<"d","e">>,
    <<"d","e","r">>,
    <<"d","e","n">>,
    <<"d","u">>,
    <<"l","a">>,
    <<"l","e">> }

\* One segment of a name part: a listed preposition stays lower case, anything
\* else gets its first character upper-cased and the rest lower-cased
FormatSegment(name) ==
    IF name = <<>> THEN <<>>
    ELSE IF toLowerCase(name) \in LowerPrefixes THEN toLowerCase(name)
    ELSE <<UpperChar(name[1])>> \o toLowerCase(Tail(name))

formatName(name) ==
    IF name = <<>> THEN <<>>
    ELSE IF includes(name, <<"-">>)
         THEN LET segs == splitChar(name, "-")
              IN join([i \in 1..Len(segs) |-> FormatSegment(segs[i])], <<"-">>)
         ELSE FormatSegment(name)

normalizeName(name) ==
    IF name = <<>> \/ name = HiddenMarker THEN <<>>
    ELSE LET parts == splitWs(name)
             nameParts == SelectSeq(parts, LAMBDA p : toUpperCase(p) \notin Titles)
         IN IF Len(nameParts) = 0 THEN name
            ELSE IF Len(nameParts) >= 2
                 THEN formatName(join(Tail(nameParts), <<" ">>))
                        \o <<" ">> \o formatName(nameParts[1])
                 ELSE formatName(nameParts[1])

\* /^(\d{4})\s+(.+)$/ : four digits, white space, at least one more character
parseLocation(location) ==
    IF location = <<>> \/ location = HiddenMarker
    THEN [plz |-> <<>>, qth |-> <<>>]
    ELSE IF /\ Len(location) >= 6
            /\ AllIn(SubSeq(location, 1, 4), Digits)
            /\ IsWs(location[5])
         THEN [plz |-> SubSeq(location, 1, 4),
               qth |-> trim(SubSeq(location, 6, Len(location)))]
         ELSE [plz |-> <<>>, qth |-> trim(location)]

\* /^(OE)([0-9])([A-Z]{1,4})$/
MatchesCallsignStructure(cs) ==
    /\ Len(cs) \in 4..7
    /\ cs[1] = "O" /\ cs[2] = "E"
    /\ cs[3] \in Digits
    /\ AllIn(SubSeq(cs, 4, Len(cs)), UpperLetters)

\* variant: the address of a hidden holder is kept
normalizeEntryMut(raw) ==
    IF ~MatchesCallsignStructure(raw.callsign) THEN <<>>
    ELSE LET suffix == SubSeq(raw.callsign, 4, Len(raw.callsign))
             isHidden == raw.name = HiddenMarker \/ includes(raw.name, HiddenMarker)
             loc == parseLocation(raw.location)
             cls == parseInt(raw.licenseClass)
         IN << [ callsign |-> raw.callsign,
                 prefix |-> SubSeq(raw.callsign, 1, 2),
                 district |-> DigitVal(raw.callsign[3]),
                 suffix |-> suffix,
                 name |-> IF isHidden THEN <<>> ELSE normalizeName(raw.name),
                 qth |-> IF isHidden THEN <<>> ELSE loc.qth,
                 plz |-> IF isHidden THEN <<>> ELSE loc.plz,
                 address |-> raw.address,
                 licenseClass |-> IF cls = <<>> \/ cls = <<0>> THEN 1 ELSE cls[1],
                 isClub |-> startsWith(suffix, <<"X">>),
                 isHidden |-> isHidden ] >>

\* normalizeEntry: <<>> for a rejected row (null), <<record>> otherwise
normalizeEntry(raw) ==
    IF ~MatchesCallsignStructure(raw.callsign) THEN <<>>
    ELSE LET suffix == SubSeq(raw.callsign, 4, Len(raw.callsign))
             isHidden == raw.name = HiddenMarker \/ includes(raw.name, HiddenMarker)
             loc == parseLocation(raw.location)
             cls == parseInt(raw.licenseClass)
         IN << [ callsign |-> raw.callsign,
                 prefix |-> SubSeq(raw.callsign, 1, 2),
                 district |-> DigitVal(raw.callsign[3]),
                 suffix |-> suffix,
                 name |-> IF isHidden THEN <<>> ELSE normalizeName(raw.name),
                 qth |-> IF isHidden THEN <<>> ELSE loc.qth,
                 plz |-> IF isHidden THEN <<>> ELSE loc.plz,
                 address |-> IF isHidden THEN <<>> ELSE raw.address,
                 licenseClass |-> IF cls = <<>> \/ cls = <<0>> THEN 1 ELSE cls[1],
                 isClub |-> startsWith(suffix, <<"X">>),
                 isHidden |-> isHidden ] >>

RECURSIVE normalizeAll(_)
normalizeAll(rows) ==
    IF rows = <<>> THEN <<>>
    ELSE normalizeEntry(Head(rows)) \o normalizeAll(Tail(rows))

\* variant: a later record takes the place of the one kept for its callsign
RECURSIVE DedupFromMut(_, _, _)
DedupFromMut(entries, seen, unique) ==
    IF entries = <<>> THEN unique
    ELSE IF Head(entries).callsign \in seen
         THEN DedupFromMut(Tail(entries), seen,
                [k \in 1..Len(unique) |->
                    IF unique[k].callsign = Head(entries).callsign
                    THEN Head(entries) ELSE unique[k]])
         ELSE DedupFromMut(Tail(entries), seen \cup {Head(entries).callsign},
                           Append(unique, Head(entries)))

RECURSIVE DedupFrom(_, _, _)
DedupFrom(entries, seen, unique) ==
    IF entries = <<>> THEN unique
    ELSE IF Head(entries).callsign \in seen
         THEN DedupFrom(Tail(entries), seen, unique)
         ELSE DedupFrom(Tail(entries), seen \cup {Head(entries).callsign},
                        Append(unique, Head(entries)))

\* variant: every record is kept
deduplicateEntriesMut(entries) == entries

deduplicateEntries(entries) == DedupFrom(entries, {}, <<>>)

\* variant: an entry whose callsign is already there is left out
RECURSIVE InsertSortedMut(_, _)
InsertSortedMut(sorted, e) ==
    IF sorted = <<>> THEN <<e>>
    ELSE IF e.callsign = Head(sorted).callsign THEN sorted
    ELSE IF StrLess(e.callsign, Head(sorted).callsign)
         THEN <<e>> \o sorted
         ELSE <<Head(sorted)>> \o InsertSortedMut(Tail(sorted), e)

\* Array.prototype.sort is stable: an entry goes behind every entry that does
\* not compare greater than it
RECURSIVE InsertSorted(_, _)
InsertSorted(sorted, e) ==
    IF sorted = <<>> THEN <<e>>
    ELSE IF StrLess(e.callsign, Head(sorted).callsign)
         THEN <<e>> \o sorted
         ELSE <<Head(sorted)>> \o InsertSorted(Tail(sorted), e)

RECURSIVE SortFrom(_, _)
SortFrom(entries, sorted) ==
    IF entries = <<>> THEN sorted
    ELSE SortFrom(Tail(entries), InsertSorted(sorted, Head(entries)))

sortEntries(entries) == SortFrom(entries, <<>>)

\* ------------------------------------------------------------------------
\* Validator (parser/validate.ts)
\* ------------------------------------------------------------------------
MinEntries == 5000

MinPerDistrict == 100

MinClassOne == 1000

MaxHiddenPercent == 30

\* /^OE[0-9][A-Z]{1,4}$/
isValidCallsign(callsign) == MatchesCallsignStructure(callsign)

\* the counters of stats
CountDistrict(entries, d) ==
    Cardinality({ i \in 1..Len(entries) : entries[i].district = d })

CountLicenseClass(entries, c) ==
    Cardinality({ i \in 1..Len(entries) : entries[i].licenseClass = c })

CountClub(entries) == Cardinality({ i \in 1..Len(entries) : entries[i].isClub })

CountHidden(entries) == Cardinality({ i \in 1..Len(entries) : entries[i].isHidden })

\* errors pushed inside the loop over the entries, in order
RECURSIVE EntryErrorsFrom(_, _, _)
EntryErrorsFrom(entries, i, seen) ==
    IF i > Len(entries) THEN <<>>
    ELSE LET e == entries[i]
             expected == IF Len(e.callsign) >= 3 THEN parseInt(<<e.callsign[3]>>)
                         ELSE <<>>
             dup == IF e.callsign \in seen
                    THEN << [kind |-> "duplicate", callsign |-> e.callsign, district |-> -1] >>
                    ELSE <<>>
             fmt == IF ~isValidCallsign(e.callsign)
                    THEN << [kind |-> "format", callsign |-> e.callsign, district |-> -1] >>
                    ELSE <<>>
             mis == IF <<e.district>> # expected
                    THEN << [kind |-> "mismatch", callsign |-> e.callsign,
                             district |-> e.district] >>
                    ELSE <<>>
         IN dup \o fmt \o mis \o EntryErrorsFrom(entries, i + 1, seen \cup {e.callsign})

\* variant: the loop over the districts stops before district 9
RECURSIVE MissingDistrictErrorsMut(_, _)
MissingDistrictErrorsMut(entries, d) ==
    IF d > 8 THEN <<>>
    ELSE (IF CountDistrict(entries, d) = 0
          THEN << [kind |-> "nodistrict", callsign |-> <<>>, district |-> d] >>
          ELSE <<>>)
         \o MissingDistrictErrorsMut(entries, d + 1)

RECURSIVE MissingDistrictErrors(_, _)
MissingDistrictErrors(entries, d) ==
    IF d > 9 THEN <<>>
    ELSE (IF CountDistrict(entries, d) = 0
          THEN << [kind |-> "nodistrict", callsign |-> <<>>, district |-> d] >>
          ELSE <<>>)
         \o MissingDistrictErrors(entries, d + 1)

\* one error for every key of stats.byDistrict outside 0..9
RECURSIVE InvalidDistrictErrors(_)
InvalidDistrictErrors(keys) ==
    IF keys = {} THEN <<>>
    ELSE LET d == CHOOSE k \in keys : \A o \in keys : k <= o
         IN << [kind |-> "invaliddistrict", callsign |-> <<>>, district |-> d] >>
            \o InvalidDistrictErrors(keys \ {d})

validationErrors(db) ==
    EntryErrorsFrom(db.entries, 1, {})
      \o MissingDistrictErrors(db.entries, 1)
      \o InvalidDistrictErrors({ db.entries[i].district : i \in 1..Len(db.entries) }
                                 \ (0..9))

RECURSIVE EntryWarningsFrom(_, _)
EntryWarningsFrom(entries, i) ==
    IF i > Len(entries) THEN <<>>
    ELSE LET e == entries[i]
         IN (IF e.licenseClass < 1 \/ e.licenseClass > 4
             THEN << [kind |-> "class", callsign |-> e.callsign, district |-> -1] >>
             ELSE <<>>)
            \o (IF Len(e.suffix) < 1 \/ Len(e.suffix) > 4
                THEN << [kind |-> "suffixlen", callsign |-> e.callsign, district |-> -1] >>
                ELSE <<>>)
            \o EntryWarningsFrom(entries, i + 1)

RECURSIVE FewDistrictWarnings(_, _)
FewDistrictWarnings(entries, d) ==
    IF d > 9 THEN <<>>
    ELSE LET n == CountDistrict(entries, d)
         IN (IF n > 0 /\ n < MinPerDistrict
             THEN << [kind |-> "fewdistrict", callsign |-> <<>>, district |-> d] >>
             ELSE <<>>)
            \o FewDistrictWarnings(entries, d + 1)

validationWarnings(db) ==
    LET total == Len(db.entries)
        hidden == CountHidden(db.entries)
    IN EntryWarningsFrom(db.entries, 1)
       \o (IF total < MinEntries
           THEN << [kind |-> "lowcount", callsign |-> <<>>, district |-> -1] >>
           ELSE <<>>)
       \o FewDistrictWarnings(db.entries, 1)
       \o (IF CountLicenseClass(db.entries, 1) < MinClassOne
           THEN << [kind |-> "fewclass1", callsign |-> <<>>, district |-> -1] >>
           ELSE <<>>)
       \o (IF total > 0 /\ hidden * 100 > MaxHiddenPercent * total
           THEN << [kind |-> "hidden", callsign |-> <<>>, district |-> -1] >>
           ELSE <<>>)

validateDatabase(db) ==
    [errors |-> validationErrors(db), warnings |-> validationWarnings(db)]

\* ------------------------------------------------------------------------
\* Extracted rows the rebuild job is run on, and the databases built from them
\* ------------------------------------------------------------------------
\* all nine districts; a repeated callsign and a malformed one
RowsA ==
    << [callsign |-> <<"O","E","1","A","B">>, name |-> <<"M","U","S","T","E","R"," ","H","A","N","S">>,
       location |-> <<"1","0","1","0"," ","W","i","e","n">>, address |-> <<"R","i","n","g"," ","1">>,
       licenseClass |-> <<"1">>],
       [callsign |-> <<"O","E","2","C","D">>, name |-> <<"H","U","B","E","R"," ","E","V","A"," ","D","R",".">>,
       location |-> <<"5","0","2","0"," ","S","a","l","z","b","u","r","g">>, address |-> <<"W","e","g"," ","2">>,
       licenseClass |-> <<"3">>],
       [callsign |-> <<"O","E","3","A","B">>, name |-> <<"*","-","*","-","*">>,
       location |-> <<"*","-","*","-","*">>, address |-> <<"*","-","*","-","*">>,
       licenseClass |-> <<"1">>],
       [callsign |-> <<"O","E","4","E","F">>, name |-> <<"V","O","N"," ","B","E","R","G"," ","U","W","E">>,
       location |-> <<"I","r","g","e","n","d","w","o">>, address |-> <<>>,
       licenseClass |-> <<"4">>],
       [callsign |-> <<"O","E","5","X","K","V","C">>, name |-> <<"K","L","U","B"," ","L","I","N","Z">>,
       location |-> <<"4","0","2","0"," ","L","i","n","z">>, address |-> <<"P","l","a","t","z"," ","5">>,
       licenseClass |-> <<"1">>],
       [callsign |-> <<"O","E","6","G","H">>, name |-> <<"M","A","I","E","R","-","B","A","U","E","R"," ","I","D","A">>,
       location |-> <<"8","0","1","0"," ","G","r","a","z">>, address |-> <<"G","a","s","s","e"," ","6">>,
       licenseClass |-> <<"1">>],
       [callsign |-> <<"O","E","7","I","J">>, name |-> <<"I","N","G","."," ","G","R","U","B","E","R">>,
       location |-> <<"6","0","2","0"," ","I","n","n","s","b","r","u","c","k">>, address |-> <<"W","e","g"," ","7">>,
       licenseClass |-> <<"x">>],
       [callsign |-> <<"O","E","8","K","L">>, name |-> <<"K","O","F","L","E","R"," ","A","N","N","A"," ","M","A","R","I","A">>,
       location |-> <<"9","0","2","0"," ","K","l","a","g","e","n","f","u","r","t">>, address |-> <<"W","e","g"," ","8">>,
       licenseClass |-> <<"1">>],
       [callsign |-> <<"O","E","9","M","N">>, name |-> <<"M","O","S","E","R">>,
       location |-> <<"6","9","0","0"," ","B","r","e","g","e","n","z">>, address |-> <<"W","e","g"," ","9">>,
       licenseClass |-> <<"1">>],
       [callsign |-> <<"O","E","1","A","B">>, name |-> <<"D","O","P","P","E","L","T"," ","H","A","N","S">>,
       location |-> <<"1","0","1","0"," ","W","i","e","n">>, address |-> <<"R","i","n","g"," ","1">>,
       licenseClass |-> <<"1">>],
       [callsign |-> <<"o","e","1","z","z">>, name |-> <<"K","L","E","I","N">>,
       location |-> <<"1","0","1","0"," ","W","i","e","n">>, address |-> <<"R","i","n","g"," ","1">>,
       licenseClass |-> <<"1">>] >>

\* a later publication: OE1AB gone, OE1CD new, OE3AB no longer hidden
RowsB ==
    << [callsign |-> <<"O","E","9","M","N">>, name |-> <<"M","O","S","E","R">>,
       location |-> <<"6","9","0","0"," ","B","r","e","g","e","n","z">>, address |-> <<"W","e","g"," ","9">>,
       licenseClass |-> <<"1">>],
       [callsign |-> <<"O","E","1","C","D">>, name |-> <<"N","E","U"," ","H","A","N","S">>,
       location |-> <<"1","0","2","0"," ","W","i","e","n">>, address |-> <<"R","i","n","g"," ","2">>,
       licenseClass |-> <<"1">>],
       [callsign |-> <<"O","E","2","C","D">>, name |-> <<"H","U","B","E","R"," ","E","V","A"," ","D","R",".">>,
       location |-> <<"5","0","2","0"," ","S","a","l","z","b","u","r","g">>, address |-> <<"W","e","g"," ","2">>,
       licenseClass |-> <<"3">>],
       [callsign |-> <<"O","E","3","A","B">>, name |-> <<"B","A","U","E","R"," ","U","D","O">>,
       location |-> <<"3","1","0","0"," ","S","t","."," ","P","o","e","l","t","e","n">>, address |-> <<"W","e","g"," ","3">>,
       licenseClass |-> <<"1">>],
       [callsign |-> <<"O","E","4","E","F">>, name |-> <<"V","O","N"," ","B","E","R","G"," ","U","W","E">>,
       location |-> <<"I","r","g","e","n","d","w","o">>, address |-> <<>>,
       licenseClass |-> <<"4">>],
       [callsign |-> <<"O","E","5","X","K","V","C">>, name |-> <<"K","L","U","B"," ","L","I","N","Z">>,
       location |-> <<"4","0","2","0"," ","L","i","n","z">>, address |-> <<"P","l","a","t","z"," ","5">>,
       licenseClass |-> <<"1">>],
       [callsign |-> <<"O","E","6","G","H">>, name |-> <<"M","A","I","E","R","-","B","A","U","E","R"," ","I","D","A">>,
       location |-> <<"8","0","1","0"," ","G","r","a","z">>, address |-> <<"G","a","s","s","e"," ","6">>,
       licenseClass |-> <<"1">>],
       [callsign |-> <<"O","E","7","I","J">>, name |-> <<"I","N","G","."," ","G","R","U","B","E","R">>,
       location |-> <<"6","0","2","0"," ","I","n","n","s","b","r","u","c","k">>, address |-> <<"W","e","g"," ","7">>,
       licenseClass |-> <<"x">>],
       [callsign |-> <<"O","E","8","K","L">>, name |-> <<"K","O","F","L","E","R"," ","A","N","N","A"," ","M","A","R","I","A">>,
       location |-> <<"9","0","2","0"," ","K","l","a","g","e","n","f","u","r","t">>, address |-> <<"W","e","g"," ","8">>,
       licenseClass |-> <<"1">>],
       [callsign |-> <<"O","E","0","X","A">>, name |-> <<"K","L","U","B"," ","N","U","L","L">>,
       location |-> <<"1","0","1","0"," ","W","i","e","n">>, address |-> <<>>,
       licenseClass |-> <<"1">>] >>

\* an extraction that lost every district-5 row
RowsC ==
    << [callsign |-> <<"O","E","1","A","B">>, name |-> <<"M","U","S","T","E","R"," ","H","A","N","S">>,
       location |-> <<"1","0","1","0"," ","W","i","e","n">>, address |-> <<"R","i","n","g"," ","1">>,
       licenseClass |-> <<"1">>],
       [callsign |-> <<"O","E","2","C","D">>, name |-> <<"H","U","B","E","R"," ","E","V","A"," ","D","R",".">>,
       location |-> <<"5","0","2","0"," ","S","a","l","z","b","u","r","g">>, address |-> <<"W","e","g"," ","2">>,
       licenseClass |-> <<"3">>],
       [callsign |-> <<"O","E","3","A","B">>, name |-> <<"*","-","*","-","*">>,
       location |-> <<"*","-","*","-","*">>, address |-> <<"*","-","*","-","*">>,
       licenseClass |-> <<"1">>],
       [callsign |-> <<"O","E","4","E","F">>, name |-> <<"V","O","N"," ","B","E","R","G"," ","U","W","E">>,
       location |-> <<"I","r","g","e","n","d","w","o">>, address |-> <<>>,
       licenseClass |-> <<"4">>],
       [callsign |-> <<"O","E","6","G","H">>, name |-> <<"M","A","I","E","R","-","B","A","U","E","R"," ","I","D","A">>,
       location |-> <<"8","0","1","0"," ","G","r","a","z">>, address |-> <<"G","a","s","s","e"," ","6">>,
       licenseClass |-> <<"1">>],
       [callsign |-> <<"O","E","7","I","J">>, name |-> <<"I","N","G","."," ","G","R","U","B","E","R">>,
       location |-> <<"6","0","2","0"," ","I","n","n","s","b","r","u","c","k">>, address |-> <<"W","e","g"," ","7">>,
       licenseClass |-> <<"x">>],
       [callsign |-> <<"O","E","8","K","L">>, name |-> <<"K","O","F","L","E","R"," ","A","N","N","A"," ","M","A","R","I","A">>,
       location |-> <<"9","0","2","0"," ","K","l","a","g","e","n","f","u","r","t">>, address |-> <<"W","e","g"," ","8">>,
       licenseClass |-> <<"1">>],
       [callsign |-> <<"O","E","9","M","N">>, name |-> <<"M","O","S","E","R">>,
       location |-> <<"6","9","0","0"," ","B","r","e","g","e","n","z">>, address |-> <<"W","e","g"," ","9">>,
       licenseClass |-> <<"1">>] >>

\* an extraction that recognised no row at all
RowsD ==
    <<  >>

RowSets == {"A", "B", "C", "D"}

Rows(id) ==
    CASE id = "A" -> RowsA
      [] id = "B" -> RowsB
      [] id = "C" -> RowsC
      [] id = "D" -> RowsD

\* main(): normalizeAll, deduplicateEntries, sortEntries, then the database object
BuildDatabase(id) ==
    LET entries == sortEntries(deduplicateEntries(normalizeAll(Rows(id))))
    IN [ version |-> id, sourceUrl |-> "https://www.fb.gv.at/",
         parsedAt |-> id, count |-> Len(entries), entries |-> entries ]

DbA == BuildDatabase("A")

DbB == BuildDatabase("B")

DbC == BuildDatabase("C")

DbD == BuildDatabase("D")

\* content of a database file, by the row set it was built from
Database(id) ==
    CASE id = "A" -> DbA
      [] id = "B" -> DbB
      [] id = "C" -> DbC
      [] id = "D" -> DbD

\* ------------------------------------------------------------------------
\* Bounds of the model
\* ------------------------------------------------------------------------
\* one-second clock ticks on top of one database-snapshot lifetime
MaxSeconds == 2

\* ------------------------------------------------------------------------
\* State
\* ------------------------------------------------------------------------
VARIABLES
    now,              \* Date.now(), in milliseconds
    file,             \* data/callsigns_oe.json: "missing" or the database in it
    backup,           \* data/callsigns_oe_backup.json, likewise
    cachedDatabase,   \* sources/local.ts: snapshot ("null" or a database)
    cacheLoadedAt,    \* sources/local.ts: load time of the snapshot
    lookupCache,      \* lookup.ts: normalized callsign -> [result, timestamp]
    config,           \* lookup.ts: CallsignConfig
    qrzSession,       \* sources/qrz.ts: [key, expiry] (sessionKey, sessionExpiry)
    hamqthSession,    \* sources/hamqth.ts: [id, expiry] (sessionId, sessionExpiry)
    lk,               \* the lookupCallsign call being served
    rq,               \* one call of another serving operation
    job,              \* the rebuild job (scripts/update-callsigns.ts)
    gate,             \* qrz.ts, hamqth.ts: lastRequestTime and the callers of makeRequest
    batch,            \* lookup.ts: one call of lookupMultiple
    sg,               \* suggest.ts: one call of a suggestion generator
    pf                \* parser: one application of a function of the rebuild pipeline

vars == << now, file, backup, cachedDatabase, cacheLoadedAt, lookupCache, config,
           qrzSession, hamqthSession, lk, rq, job, gate, batch, sg, pf >>

\* ------------------------------------------------------------------------
\* Database snapshot (sources/local.ts)
\* ------------------------------------------------------------------------
CACHE_TTL == 300000

DbNotFoundError ==
    "Callsign database not found at data/callsigns_oe.json. Run 'npm run update-callsigns' first."

\* JSON.parse of a file that is not a whole JSON text; loadDatabase rethrows it
JsonSyntaxError == "SyntaxError: Unexpected end of JSON input"

\* variant: the snapshot is still served at the very end of its lifetime
SnapshotValidMut ==
    cachedDatabase # "null" /\ (now - cacheLoadedAt) <= CACHE_TTL

\* loadDatabase, the part before the read: is the snapshot returned as it is?
SnapshotValid ==
    cachedDatabase # "null" /\ (now - cacheLoadedAt) < CACHE_TTL

\* db.entries.find(e => e.callsign === callsign): <<>> or the first match
FindEntry(db, callsign) ==
    LET hits == { i \in 1..Len(db.entries) : db.entries[i].callsign = callsign }
    IN IF hits = {} THEN <<>>
       ELSE << db.entries[CHOOSE i \in hits : \A j \in hits : i <= j] >>

NoWarning == "undefined"

NotFound == [exists |-> FALSE, source |-> "not_found", warning |-> NoWarning, data |-> <<>>]

Miss(warning) == [NotFound EXCEPT !.warning = warning]

\* a CallsignEntry: the record with its provenance
WithSource(entry, source, lastUpdated) ==
    [ callsign |-> entry.callsign, prefix |-> entry.prefix, district |-> entry.district,
      suffix |-> entry.suffix, name |-> entry.name, qth |-> entry.qth, plz |-> entry.plz,
      address |-> entry.address, licenseClass |-> entry.licenseClass,
      isClub |-> entry.isClub, isHidden |-> entry.isHidden,
      source |-> source, lastUpdated |-> lastUpdated ]

\* variant: the record handed out is marked as coming from no source
lookupLocalInMut(db, callsign) ==
    LET normalized == trim(toUpperCase(callsign))
        entry == FindEntry(db, normalized)
    IN IF entry = <<>> THEN NotFound
       ELSE [ exists |-> TRUE, source |-> "fb", warning |-> NoWarning,
              data |-> << WithSource(entry[1], "not_found", db.parsedAt) >> ]

\* lookupLocal, after loadDatabase has returned db
lookupLocalIn(db, callsign) ==
    LET normalized == trim(toUpperCase(callsign))
        entry == FindEntry(db, normalized)
    IN IF entry = <<>> THEN NotFound
       ELSE [ exists |-> TRUE, source |-> "fb", warning |-> NoWarning,
              data |-> << WithSource(entry[1], "fb", db.parsedAt) >> ]

\* ------------------------------------------------------------------------
\* Lookup cache and configuration (lookup.ts)
\* ------------------------------------------------------------------------
DEFAULT_CACHE_TTL == 3600

DEFAULT_CONFIG ==
    [ cacheEnabled |-> TRUE, cacheTTL |-> DEFAULT_CACHE_TTL, qrz |-> <<>>, hamqth |-> <<>> ]

\* values setConfig is called with
CacheTTLs == {1, DEFAULT_CACHE_TTL}

QrzCredentials ==
    { <<>>, << [username |-> "oe8yml", password |-> "secret"] >>,
      << [username |-> "oe8yml", password |-> ""] >> }

HamqthCredentials == { <<>>, << [username |-> "oe8yml", password |-> "secret"] >> }

isQRZConfigured(credentials) ==
    /\ credentials # <<>>
    /\ credentials[1].username # ""
    /\ credentials[1].password # ""
\* variant: an entry expires one comparison early, at the end of its lifetime
CacheExpiredMut(entry) == (now - entry.timestamp) >= config.cacheTTL * 1000

CacheExpired(entry) == (now - entry.timestamp) > config.cacheTTL * 1000

\* getCachedLookup: the result it returns (<<>> for null) ...
getCachedLookup(callsign) ==
    LET key == toUpperCase(callsign)
    IN IF ~config.cacheEnabled THEN <<>>
       ELSE IF key \notin DOMAIN lookupCache THEN <<>>
       ELSE IF CacheExpired(lookupCache[key]) THEN <<>>
       ELSE << lookupCache[key].result >>

\* ... and the cache it leaves behind (an expired entry is deleted)
CacheAfterGet(callsign) ==
    LET key == toUpperCase(callsign)
    IN IF config.cacheEnabled /\ key \in DOMAIN lookupCache
          /\ CacheExpired(lookupCache[key])
       THEN [k \in DOMAIN lookupCache \ {key} |-> lookupCache[k]]
       ELSE lookupCache
\* variant: only hits are stored
setCachedLookupMut(c, callsign, result) ==
    LET key == toUpperCase(callsign)
    IN IF ~config.cacheEnabled \/ ~result.exists THEN c
       ELSE [k \in DOMAIN c \cup {key} |->
                IF k = key THEN [result |-> result, timestamp |-> now] ELSE c[k]]

\* setCachedLookup on the cache c
setCachedLookup(c, callsign, result) ==
    LET key == toUpperCase(callsign)
    IN IF ~config.cacheEnabled THEN c
       ELSE [k \in DOMAIN c \cup {key} |->
                IF k = key THEN [result |-> result, timestamp |-> now] ELSE c[k]]
\* variant: /^[A-Z0-9]{2,10}$/
MatchesBasicFormatMut(s) ==
    /\ Len(s) >= 2 /\ Len(s) <= 10
    /\ AllIn(s, UpperLetters \cup Digits)

\* /^[A-Z0-9]{3,10}$/
MatchesBasicFormat(s) ==
    /\ Len(s) >= 3 /\ Len(s) <= 10
    /\ AllIn(s, UpperLetters \cup Digits)

InvalidFormat == Miss("Invalid callsign format")

OeWarningQrz ==
    "Rufzeichen in QRZ.com gefunden aber NICHT in offizieller Liste (fb.gv.at)"

OeWarningHamqth ==
    "Rufzeichen in HamQTH gefunden aber NICHT in offizieller Liste (fb.gv.at)"

\* ------------------------------------------------------------------------
\* External sources (sources/qrz.ts, sources/hamqth.ts)
\* ------------------------------------------------------------------------
QRZ_SESSION_MS == 23 * 60 * 60 * 1000

HAMQTH_SESSION_MS == 55 * 60 * 1000

\* what a request can end in: the three ways makeRequest rejects ...
RequestFailures == {"network", "http", "timeout"}

\* ... and the answers of the services to a login and to a callsign query
QrzLoginAnswers == RequestFailures \cup {"error", "nokey", "key"}

QrzQueryAnswers ==
    RequestFailures \cup {"notfound", "session", "othererror", "nocall", "found"}

HamqthLoginAnswers == RequestFailures \cup {"error", "session_id"}

HamqthQueryAnswers ==
    RequestFailures \cup {"notfound", "othererror", "nocallsign", "found"}

\* /^(OE)(\d)([A-Z]{1,4})$/i on the callsign found
ExternalEntry(callsign, source, isClub) ==
    LET m == MatchesCallsignStructure(toUpperCase(callsign))
    IN [ callsign |-> toUpperCase(callsign),
         prefix |-> IF m THEN <<"O", "E">> ELSE SubSeq(callsign, 1, 2),
         district |-> IF m THEN DigitVal(callsign[3]) ELSE 0,
         suffix |-> IF m THEN toUpperCase(SubSeq(callsign, 4, Len(callsign))) ELSE <<>>,
         name |-> <<"N">>, qth |-> <<"Q">>,
         plz |-> <<>>, address |-> <<>>, licenseClass |-> 1,
         isClub |-> isClub, isHidden |-> FALSE,
         source |-> source, lastUpdated |-> "now" ]

\* foundCallsign.match(/OE\d+X/i) !== null
QrzIsClub(callsign) ==
    LET u == toUpperCase(callsign)
    IN \E i \in 1..Len(u) : \E j \in (i + 3)..Len(u) :
          /\ u[i] = "O" /\ u[i + 1] = "E" /\ u[j] = "X"
          /\ AllIn(SubSeq(u, i + 2, j - 1), Digits)

\* lookupQRZ once the login request has ended in `answer` without a key
QrzLoginResult(answer) == Miss("QRZ.com authentication failed - check credentials")

\* variant: a request that failed counts as a plain miss, without a warning
QrzQueryResultMut(callsign, answer) ==
    CASE answer = "found" ->
           [ exists |-> TRUE, source |-> "qrz", warning |-> NoWarning,
             data |-> << ExternalEntry(callsign, "qrz", QrzIsClub(callsign)) >> ]
      [] answer \in {"notfound", "nocall"} \cup RequestFailures -> NotFound
      [] answer = "session" -> Miss("QRZ session expired: Session Timeout")
      [] answer = "othererror" -> Miss("QRZ error: Connection refused")

\* lookupQRZ once the callsign request has ended in `answer`
QrzQueryResult(callsign, answer) ==
    CASE answer = "found" ->
           [ exists |-> TRUE, source |-> "qrz", warning |-> NoWarning,
             data |-> << ExternalEntry(callsign, "qrz", QrzIsClub(callsign)) >> ]
      [] answer \in {"notfound", "nocall"} -> NotFound
      [] answer = "session" -> Miss("QRZ session expired: Session Timeout")
      [] answer = "othererror" -> Miss("QRZ error: Connection refused")
      [] answer = "network" -> Miss("QRZ lookup failed: ECONNRESET")
      [] answer = "http" -> Miss("QRZ lookup failed: QRZ HTTP 500")
      [] answer = "timeout" -> Miss("QRZ lookup failed: QRZ request timeout")

HamqthLoginResult(answer) == Miss("HamQTH authentication failed")

HamqthQueryResult(callsign, answer) ==
    CASE answer = "found" ->
           [ exists |-> TRUE, source |-> "hamqth", warning |-> NoWarning,
             data |-> << ExternalEntry(callsign, "hamqth", includes(callsign, <<"X">>)) >> ]
      [] answer \in {"notfound", "nocallsign"} -> NotFound
      [] answer = "othererror" -> Miss("HamQTH error: Service unavailable")
      [] answer = "network" -> Miss("HamQTH lookup failed: ECONNRESET")
      [] answer = "http" -> Miss("HamQTH lookup failed: HamQTH HTTP 500")
      [] answer = "timeout" -> Miss("HamQTH lookup failed: HamQTH request timeout")

\* ------------------------------------------------------------------------
\* lookupCallsign (lookup.ts), one action per stretch between two awaits
\* ------------------------------------------------------------------------
NoResult == [exists |-> FALSE, source |-> "none", warning |-> NoWarning, data |-> <<>>]

IdleLookup ==
    [ pc |-> "idle", raw |-> <<>>, cs |-> <<>>, skipCache |-> FALSE, localOnly |-> FALSE,
      cacheRead |-> FALSE, loadNow |-> 0, trace |-> <<>>, result |-> NoResult,
      error |-> "", session |-> [key |-> "null", expiry |-> 0] ]

\* what one source was asked and returned, kept per call: whether its request
\* failed (makeRequest rejected, or no session could be had), and the result
FailureAnswers == RequestFailures \cup {"error", "nokey"}

Consulted(src, answer, res) ==
    [ src |-> src, failed |-> answer \in FailureAnswers,
      exists |-> res.exists, warned |-> res.warning # NoWarning ]

Finish(r, result) == [r EXCEPT !.pc = "done", !.result = result]
\* variant: the failure is turned into a not-found result
ThrowMut(r, message) == [r EXCEPT !.pc = "done", !.result = NotFound]

Throw(r, message) == [r EXCEPT !.pc = "done", !.error = message]

\* lookupHamQTH up to its first request: getSession, then the query
StartHamQTH(r) ==
    IF \/ config.hamqth = <<>>
       \/ config.hamqth[1].username = "" \/ config.hamqth[1].password = ""
    THEN [r EXCEPT !.pc = "hamqthQuery"]
    ELSE IF hamqthSession.id # "null" /\ now < hamqthSession.expiry
         THEN [r EXCEPT !.pc = "hamqthQuery"]
         ELSE [r EXCEPT !.pc = "hamqthLogin"]

\* variant: a stored key is used whatever its age
StartQRZMut(r) ==
    IF qrzSession.key # "null"
    THEN [r EXCEPT !.pc = "qrzGate", !.session = qrzSession]
    ELSE [r EXCEPT !.pc = "qrzLogin"]

\* lookupQRZ up to its first await: getSession returns the stored key and
\* makeRequest is called for the query, or the login request is made
StartQRZ(r) ==
    IF qrzSession.key # "null" /\ now < qrzSession.expiry
    THEN [r EXCEPT !.pc = "qrzGate", !.session = qrzSession]
    ELSE [r EXCEPT !.pc = "qrzLogin"]
\* variant: QRZ is asked whether or not it is configured
AfterLocalMissMut(r, localResult) ==
    IF r.localOnly THEN Finish(r, localResult)
    ELSE StartQRZ(r)

\* lookupCallsign from the local miss to the next await or return
AfterLocalMiss(r, localResult) ==
    IF r.localOnly THEN Finish(r, localResult)
    ELSE IF isQRZConfigured(config.qrz) THEN StartQRZ(r)
    ELSE StartHamQTH(r)

\* lookupCallsign from the return of loadDatabase (inside lookupLocal) on;
\* c is the lookup cache as the cache check left it
Resolve(r0, db, c) ==
    LET localResult == lookupLocalIn(db, r0.cs)
        r == [r0 EXCEPT
                !.trace = Append(@, Consulted("local", "read", localResult))]
    IN IF localResult.exists
       THEN /\ lookupCache' = setCachedLookup(c, r.cs, localResult)
            /\ lk' = Finish(r, localResult)
       ELSE /\ lookupCache' = c
            /\ lk' = AfterLocalMiss(r, localResult)

\* lookupCallsign(raw, {skipCache, localOnly}) up to its first await
Call(raw, skipCache, localOnly) ==
    /\ lk.pc = "idle"
    /\ LET normalized == trim(toUpperCase(raw))
           r == [lk EXCEPT !.raw = raw, !.cs = normalized,
                              !.skipCache = skipCache, !.localOnly = localOnly]
       IN IF ~MatchesBasicFormat(normalized)
          THEN /\ lk' = Finish(r, InvalidFormat)
               /\ UNCHANGED << lookupCache, cachedDatabase, cacheLoadedAt >>
          ELSE LET cached == IF skipCache THEN <<>> ELSE getCachedLookup(normalized)
                   c == IF skipCache THEN lookupCache ELSE CacheAfterGet(normalized)
                   r2 == [r EXCEPT !.cacheRead = ~skipCache]
               IN IF cached # <<>>
                  THEN /\ lk' = Finish(r2, cached[1])
                       /\ lookupCache' = c
                       /\ UNCHANGED << cachedDatabase, cacheLoadedAt >>
                  ELSE IF SnapshotValid
                  THEN /\ Resolve(r2, Database(cachedDatabase), c)
                       /\ UNCHANGED << cachedDatabase, cacheLoadedAt >>
                  ELSE /\ lk' = [r2 EXCEPT !.pc = "readFile", !.loadNow = now]
                       /\ lookupCache' = c
                       /\ UNCHANGED << cachedDatabase, cacheLoadedAt >>
    /\ UNCHANGED << now, file, backup, config, qrzSession, hamqthSession, rq, job >>
    /\ UNCHANGED << gate, batch, sg, pf >>

\* loadDatabase after fs.readFile, then the rest of lookupLocal and lookupCallsign
ReadFileDone ==
    /\ lk.pc = "readFile"
    /\ IF file = "missing"
       THEN /\ lk' = Throw(lk, DbNotFoundError)
            /\ UNCHANGED << lookupCache, cachedDatabase, cacheLoadedAt >>
       ELSE IF file = "partial"
       THEN /\ lk' = Throw(lk, JsonSyntaxError)
            /\ UNCHANGED << lookupCache, cachedDatabase, cacheLoadedAt >>
       ELSE /\ cachedDatabase' = file
            /\ cacheLoadedAt' = lk.loadNow
            /\ Resolve(lk, Database(file), lookupCache)
    /\ UNCHANGED << now, file, backup, config, qrzSession, hamqthSession, rq, job >>
    /\ UNCHANGED << gate, batch, sg, pf >>

\* variant: on a miss the result of lookupHamQTH itself is stored and returned
EndHamQTHMut(r, answer, hamqthResult) ==
    LET r1 == [r EXCEPT !.trace = Append(@, Consulted("hamqth", answer, hamqthResult))]
        isOeCallsign == startsWith(r.cs, <<"O", "E">>)
        hit == IF isOeCallsign THEN [hamqthResult EXCEPT !.warning = OeWarningHamqth]
               ELSE hamqthResult
    IN IF hamqthResult.exists
       THEN /\ lookupCache' = setCachedLookup(lookupCache, r.cs, hit)
            /\ lk' = Finish(r1, hit)
       ELSE /\ lookupCache' = setCachedLookup(lookupCache, r.cs, hamqthResult)
            /\ lk' = Finish(r1, hamqthResult)

\* the end of lookupHamQTH and of lookupCallsign behind it
EndHamQTH(r, answer, hamqthResult) ==
    LET r1 == [r EXCEPT !.trace = Append(@, Consulted("hamqth", answer, hamqthResult))]
        isOeCallsign == startsWith(r.cs, <<"O", "E">>)
        hit == IF isOeCallsign THEN [hamqthResult EXCEPT !.warning = OeWarningHamqth]
               ELSE hamqthResult
    IN IF hamqthResult.exists
       THEN /\ lookupCache' = setCachedLookup(lookupCache, r.cs, hit)
            /\ lk' = Finish(r1, hit)
       ELSE /\ lookupCache' = setCachedLookup(lookupCache, r.cs, NotFound)
            /\ lk' = Finish(r1, NotFound)
\* variant: the QRZ hit is returned as QRZ gave it, without the warning
EndQRZMut(r, answer, qrzResult) ==
    LET r1 == [r EXCEPT !.trace = Append(@, Consulted("qrz", answer, qrzResult))]
    IN IF qrzResult.exists
       THEN /\ lookupCache' = setCachedLookup(lookupCache, r.cs, qrzResult)
            /\ lk' = Finish(r1, qrzResult)
       ELSE /\ lookupCache' = lookupCache
            /\ lk' = StartHamQTH(r1)

\* the end of lookupQRZ and lookupCallsign up to its next await or return
EndQRZ(r, answer, qrzResult) ==
    LET r1 == [r EXCEPT !.trace = Append(@, Consulted("qrz", answer, qrzResult))]
        isOeCallsign == startsWith(r.cs, <<"O", "E">>)
        hit == IF isOeCallsign THEN [qrzResult EXCEPT !.warning = OeWarningQrz]
               ELSE qrzResult
    IN IF qrzResult.exists
       THEN /\ lookupCache' = setCachedLookup(lookupCache, r.cs, hit)
            /\ lk' = Finish(r1, hit)
       ELSE /\ lookupCache' = lookupCache
            /\ lk' = StartHamQTH(r1)

\* getSession of QRZ after its login request
QrzLoginDone(answer) ==
    /\ lk.pc = "qrzLogin"
    /\ IF answer = "key"
       THEN /\ qrzSession' = [key |-> "key", expiry |-> now + QRZ_SESSION_MS]
            /\ lk' = [lk EXCEPT !.pc = "qrzGate", !.session = qrzSession']
            /\ UNCHANGED lookupCache
       ELSE /\ EndQRZ(lk, answer, QrzLoginResult(answer))
            /\ UNCHANGED qrzSession
    /\ UNCHANGED << now, file, backup, cachedDatabase, cacheLoadedAt, config,
                    hamqthSession, rq, job >>
    /\ UNCHANGED << gate, batch, sg, pf >>

\* makeRequest for the callsign query, past its gate: the request is sent
\* with the key getSession returned
QrzQuerySent ==
    /\ lk.pc = "qrzGate"
    /\ lk' = [lk EXCEPT !.pc = "qrzQuery"]
    /\ UNCHANGED << now, file, backup, cachedDatabase, cacheLoadedAt, lookupCache, config,
                    qrzSession, hamqthSession, rq, job >>
    /\ UNCHANGED << gate, batch, sg, pf >>

\* invalidateSession()
invalidateSession ==
    /\ qrzSession.key # "null"
    /\ qrzSession' = [key |-> "null", expiry |-> 0]
    /\ UNCHANGED << now, file, backup, cachedDatabase, cacheLoadedAt, lookupCache, config,
                    hamqthSession, lk, rq, job >>
    /\ UNCHANGED << gate, batch, sg, pf >>

\* lookupQRZ after its callsign request
QrzQueryDone(answer) ==
    /\ lk.pc = "qrzQuery"
    /\ qrzSession' = IF answer = "session" THEN [key |-> "null", expiry |-> 0]
                     ELSE qrzSession
    /\ EndQRZ(lk, answer, QrzQueryResult(lk.cs, answer))
    /\ UNCHANGED << now, file, backup, cachedDatabase, cacheLoadedAt, config,
                    hamqthSession, rq, job >>
    /\ UNCHANGED << gate, batch, sg, pf >>

\* getSession of HamQTH after its login request
HamqthLoginDone(answer) ==
    /\ lk.pc = "hamqthLogin"
    /\ IF answer = "session_id"
       THEN /\ hamqthSession' = [id |-> "id", expiry |-> now + HAMQTH_SESSION_MS]
            /\ lk' = [lk EXCEPT !.pc = "hamqthQuery"]
            /\ UNCHANGED lookupCache
       ELSE /\ EndHamQTH(lk, answer, HamqthLoginResult(answer))
            /\ UNCHANGED hamqthSession
    /\ UNCHANGED << now, file, backup, cachedDatabase, cacheLoadedAt, config,
                    qrzSession, rq, job >>
    /\ UNCHANGED << gate, batch, sg, pf >>

\* lookupHamQTH after its callsign request
HamqthQueryDone(answer) ==
    /\ lk.pc = "hamqthQuery"
    /\ EndHamQTH(lk, answer, HamqthQueryResult(lk.cs, answer))
    /\ UNCHANGED << now, file, backup, cachedDatabase, cacheLoadedAt, config,
                    qrzSession, hamqthSession, rq, job >>
    /\ UNCHANGED << gate, batch, sg, pf >>

\* the caller has taken the result (or the error); the slot is free again
Return ==
    /\ lk.pc = "done"
    /\ lk' = IdleLookup
    /\ UNCHANGED << now, file, backup, cachedDatabase, cacheLoadedAt, lookupCache,
                    config, qrzSession, hamqthSession, rq, job >>
    /\ UNCHANGED << gate, batch, sg, pf >>

\* ------------------------------------------------------------------------
\* Environment of the serving engine
\* ------------------------------------------------------------------------
\* d milliseconds pass; the model stops the clock at the horizon
Tick(d, horizon) ==
    /\ now + d <= horizon
    /\ now' = now + d
    /\ UNCHANGED << file, backup, cachedDatabase, cacheLoadedAt, lookupCache, config,
                    qrzSession, hamqthSession, lk, rq, job >>
    /\ UNCHANGED << gate, batch, sg, pf >>

\* setConfig(newConfig): the keys given replace the current ones
setConfig(key, value) ==
    /\ key \in {"cacheEnabled", "cacheTTL", "qrz", "hamqth"}
    /\ config' = [config EXCEPT ![key] = value]
    /\ config' # config
    /\ UNCHANGED << now, file, backup, cachedDatabase, cacheLoadedAt, lookupCache,
                    qrzSession, hamqthSession, lk, rq, job >>
    /\ UNCHANGED << gate, batch, sg, pf >>

\* clearCache of lookup.ts
clearLookupCache ==
    /\ lookupCache # <<>>
    /\ lookupCache' = <<>>
    /\ UNCHANGED << now, file, backup, cachedDatabase, cacheLoadedAt, config,
                    qrzSession, hamqthSession, lk, rq, job >>
    /\ UNCHANGED << gate, batch, sg, pf >>

\* clearCache of sources/local.ts
clearDatabaseCache ==
    /\ cachedDatabase # "null"
    /\ cachedDatabase' = "null"
    /\ cacheLoadedAt' = 0
    /\ UNCHANGED << now, file, backup, lookupCache, config, qrzSession, hamqthSession,
                    lk, rq, job >>
    /\ UNCHANGED << gate, batch, sg, pf >>

\* a run of the rebuild job has put a validated database in place
ValidDatabases == { id \in RowSets : Len(validateDatabase(Database(id)).errors) = 0 }

DatabasePromoted(id) ==
    /\ id \in ValidDatabases
    /\ file # id
    /\ file' = id
    /\ UNCHANGED << now, backup, cachedDatabase, cacheLoadedAt, lookupCache, config,
                    qrzSession, hamqthSession, lk, rq, job >>
    /\ UNCHANGED << gate, batch, sg, pf >>

\* ------------------------------------------------------------------------
\* Availability checker (availability.ts, validate.ts) and the other
\* operations served from the database (sources/local.ts)
\* ------------------------------------------------------------------------
PersonalMin == 2

PersonalMax == 3

ClubMin == 2

ClubMax == 4
\* variant: the upper limit of the length is not checked
validateSuffixErrorsMut(suffix, isClub) ==
    LET normalized == trim(toUpperCase(suffix))
        min == IF isClub THEN ClubMin ELSE PersonalMin
    IN IF normalized = <<>> THEN << "Suffix darf nicht leer sein" >>
       ELSE (IF ~AllIn(normalized, UpperLetters)
             THEN << "Suffix darf nur Buchstaben A-Z enthalten" >> ELSE <<>>)
         \o (IF Len(normalized) < min THEN << "Suffix zu kurz" >> ELSE <<>>)
         \o (IF isClub /\ ~startsWith(normalized, <<"X">>)
             THEN << "Klubrufzeichen-Suffix muss mit X beginnen" >> ELSE <<>>)
         \o (IF ~isClub /\ startsWith(normalized, <<"X">>)
             THEN << "Persoenliches Rufzeichen-Suffix darf nicht mit X beginnen" >>
             ELSE <<>>)

\* validateSuffix(suffix, isClub): the list of errors (the texts without
\* their figures and umlauts)
validateSuffixErrors(suffix, isClub) ==
    LET normalized == trim(toUpperCase(suffix))
        min == IF isClub THEN ClubMin ELSE PersonalMin
        max == IF isClub THEN ClubMax ELSE PersonalMax
    IN IF normalized = <<>> THEN << "Suffix darf nicht leer sein" >>
       ELSE (IF ~AllIn(normalized, UpperLetters)
             THEN << "Suffix darf nur Buchstaben A-Z enthalten" >> ELSE <<>>)
         \o (IF Len(normalized) < min THEN << "Suffix zu kurz" >> ELSE <<>>)
         \o (IF Len(normalized) > max THEN << "Suffix zu lang" >> ELSE <<>>)
         \o (IF isClub /\ ~startsWith(normalized, <<"X">>)
             THEN << "Klubrufzeichen-Suffix muss mit X beginnen" >> ELSE <<>>)
         \o (IF ~isClub /\ startsWith(normalized, <<"X">>)
             THEN << "Persoenliches Rufzeichen-Suffix darf nicht mit X beginnen" >>
             ELSE <<>>)

validateSuffix(suffix, isClub) ==
    LET errors == validateSuffixErrors(suffix, isClub)
    IN [valid |-> Len(errors) = 0, errors |-> errors]

AllDistricts == <<1, 2, 3, 4, 5, 6, 7, 8, 9>>

Versteckt == <<"[","v","e","r","s","t","e","c","k","t","]">>

EmptyAvailability ==
    [available_districts |-> <<>>, taken_districts |-> <<>>, taken_by |-> <<>>]

\* the loop of checkSuffixAvailability over districtsToCheck, from index i on
RECURSIVE SuffixLoop(_, _, _, _, _)
SuffixLoop(db, normalizedSuffix, districtsToCheck, i, acc) ==
    IF i > Len(districtsToCheck) THEN acc
    ELSE LET district == districtsToCheck[i]
             testCallsign == <<"O", "E">> \o NumToStr(district) \o normalizedSuffix
             entry == FindEntry(db, testCallsign)
         IN IF entry # <<>>
            THEN SuffixLoop(db, normalizedSuffix, districtsToCheck, i + 1,
                   [acc EXCEPT
                      !.taken_districts = Append(@, district),
                      !.taken_by = Append(@,
                         [ district |-> district, callsign |-> entry[1].callsign,
                           name |-> IF entry[1].isHidden THEN Versteckt
                                    ELSE entry[1].name ])])
            ELSE SuffixLoop(db, normalizedSuffix, districtsToCheck, i + 1,
                   [acc EXCEPT !.available_districts = Append(@, district)])

\* checkSuffixAvailability after loadDatabase has returned db; districts is
\* <<>> for undefined and <<list>> for a list
checkSuffixAvailabilityIn(db, suffix, districts) ==
    SuffixLoop(db, trim(toUpperCase(suffix)),
               IF districts = <<>> THEN AllDistricts ELSE districts[1],
               1, EmptyAvailability)

\* checkAvailability: the result for an invalid suffix ...
InvalidSuffixResult(normalized) ==
    [ suffix |-> normalized, available |-> FALSE, available_districts |-> <<>>,
      taken_districts |-> <<>>, taken_by |-> <<>> ]
\* variant: available only when no district is taken
checkAvailabilityInMut(db, normalized, district) ==
    LET districtsToCheck == IF district # <<>> THEN <<district[1]>> ELSE AllDistricts
        result == checkSuffixAvailabilityIn(db, normalized, <<districtsToCheck>>)
    IN [ suffix |-> normalized,
         available |-> Len(result.taken_districts) = 0,
         available_districts |-> result.available_districts,
         taken_districts |-> result.taken_districts,
         taken_by |-> result.taken_by ]

\* ... and for a valid one, after the database has been loaded; district is
\* <<>> for undefined and <<d>> for the district d
checkAvailabilityIn(db, normalized, district) ==
    LET districtsToCheck == IF district # <<>> THEN <<district[1]>> ELSE AllDistricts
        result == checkSuffixAvailabilityIn(db, normalized, <<districtsToCheck>>)
    IN [ suffix |-> normalized,
         available |-> Len(result.available_districts) > 0,
         available_districts |-> result.available_districts,
         taken_districts |-> result.taken_districts,
         taken_by |-> result.taken_by ]

getDatabaseInfoIn(db) ==
    [version |-> db.version, count |-> db.count, parsedAt |-> db.parsedAt,
     sourceUrl |-> db.sourceUrl]

getDatabaseStatsIn(db) ==
    [ total |-> Len(db.entries),
      byDistrict |->
         [d \in { db.entries[i].district : i \in 1..Len(db.entries) } |->
             CountDistrict(db.entries, d)],
      byLicenseClass |->
         [c \in { db.entries[i].licenseClass : i \in 1..Len(db.entries) } |->
             CountLicenseClass(db.entries, c)],
      clubStations |-> CountClub(db.entries),
      hiddenEntries |-> CountHidden(db.entries) ]

NoInfo == [version |-> "", count |-> 0, parsedAt |-> "", sourceUrl |-> ""]

NoStats ==
    [ total |-> 0, byDistrict |-> <<>>, byLicenseClass |-> <<>>,
      clubStations |-> 0, hiddenEntries |-> 0 ]

Operations ==
    { "checkAvailability", "checkSuffixAvailability", "lookupLocal",
      "getDatabaseInfo", "getDatabaseStats" }

IdleRequest ==
    [ pc |-> "idle", op |-> "", arg |-> <<>>, district |-> <<>>, loaded |-> FALSE,
      loadNow |-> 0, avail |-> InvalidSuffixResult(<<>>), found |-> NoResult,
      info |-> NoInfo, stats |-> NoStats, error |-> "" ]

\* the operation from the return of loadDatabase to its own return
Complete(r, db) ==
    CASE r.op = "checkAvailability" ->
           [r EXCEPT !.pc = "done",
                     !.avail = checkAvailabilityIn(db, trim(toUpperCase(r.arg)), r.district)]
      [] r.op = "checkSuffixAvailability" ->
           [r EXCEPT !.pc = "done",
                     !.avail = [ suffix |-> trim(toUpperCase(r.arg)), available |-> FALSE ]
                                 @@ checkSuffixAvailabilityIn(db, r.arg,
                                      IF r.district = <<>> THEN <<>> ELSE <<r.district>>)]
      [] r.op = "lookupLocal" ->
           [r EXCEPT !.pc = "done", !.found = lookupLocalIn(db, r.arg)]
      [] r.op = "getDatabaseInfo" ->
           [r EXCEPT !.pc = "done", !.info = getDatabaseInfoIn(db)]
      [] r.op = "getDatabaseStats" ->
           [r EXCEPT !.pc = "done", !.stats = getDatabaseStatsIn(db)]

RequestThrow(r, message) == [r EXCEPT !.pc = "done", !.error = message]

\* a serving operation up to its first await: op(arg, district)
Request(op, arg, district) ==
    /\ rq.pc = "idle"
    /\ op \in Operations
    /\ LET r == [rq EXCEPT !.op = op, !.arg = arg, !.district = district]
           normalized == trim(toUpperCase(arg))
       IN IF /\ op = "checkAvailability"
             /\ ~validateSuffix(normalized, startsWith(normalized, <<"X">>)).valid
          THEN rq' = [r EXCEPT !.pc = "done", !.avail = InvalidSuffixResult(normalized)]
          ELSE IF SnapshotValid
          THEN rq' = Complete([r EXCEPT !.loaded = TRUE], Database(cachedDatabase))
          ELSE rq' = [r EXCEPT !.pc = "readFile", !.loaded = TRUE, !.loadNow = now]
    /\ UNCHANGED << now, file, backup, cachedDatabase, cacheLoadedAt, lookupCache, config,
                    qrzSession, hamqthSession, lk, job >>
    /\ UNCHANGED << gate, batch, sg, pf >>

\* loadDatabase after fs.readFile, then the rest of the operation
RequestReadFileDone ==
    /\ rq.pc = "readFile"
    /\ IF file = "missing"
       THEN /\ rq' = RequestThrow(rq, DbNotFoundError)
            /\ UNCHANGED << cachedDatabase, cacheLoadedAt >>
       ELSE IF file = "partial"
       THEN /\ rq' = RequestThrow(rq, JsonSyntaxError)
            /\ UNCHANGED << cachedDatabase, cacheLoadedAt >>
       ELSE /\ cachedDatabase' = file
            /\ cacheLoadedAt' = rq.loadNow
            /\ rq' = Complete(rq, Database(file))
    /\ UNCHANGED << now, file, backup, lookupCache, config, qrzSession, hamqthSession,
                    lk, job >>
    /\ UNCHANGED << gate, batch, sg, pf >>

RequestReturn ==
    /\ rq.pc = "done"
    /\ rq' = IdleRequest
    /\ UNCHANGED << now, file, backup, cachedDatabase, cacheLoadedAt, lookupCache, config,
                    qrzSession, hamqthSession, lk, job >>
    /\ UNCHANGED << gate, batch, sg, pf >>

\* the database file is taken away (by hand: no part of the program removes it)
DatabaseRemoved ==
    /\ file # "missing"
    /\ file' = "missing"
    /\ UNCHANGED << now, backup, cachedDatabase, cacheLoadedAt, lookupCache, config,
                    qrzSession, hamqthSession, lk, rq, job >>
    /\ UNCHANGED << gate, batch, sg, pf >>

\* ------------------------------------------------------------------------
\* Rebuild job (scripts/update-callsigns.ts): main(), one action per await
\* ------------------------------------------------------------------------
\* the two versions of the script: the PDF address fixed, or read off the page
JobVariants == {"fixed", "discover"}

\* startFile and saved are kept for the record: what the database file held
\* when the run began, and whether the write of the new database was begun
IdleJob ==
    [ pc |-> "idle", variant |-> "fixed", db |-> "none", errors |-> 0, warnings |-> 0,
      saved |-> FALSE, status |-> -1, startFile |-> "missing" ]
\* variant: a single error is let through
ValidationBlocksMut(validation) == Len(validation.errors) > 1

\* if (validation.errors.length > 0): the new database is not written
ValidationBlocks(validation) == Len(validation.errors) > 0

JobStart(variant) ==
    /\ job.pc = "idle"
    /\ variant \in JobVariants
    /\ job' = [IdleJob EXCEPT !.pc = "mkdir", !.variant = variant, !.startFile = file]
    /\ UNCHANGED << now, file, backup, cachedDatabase, cacheLoadedAt, lookupCache, config,
                    qrzSession, hamqthSession, lk, rq >>
    /\ UNCHANGED << gate, batch, sg, pf >>

\* fs.mkdir(DATA_DIR); a rejection is caught by the outer catch
JobMkdir(ok) ==
    /\ job.pc = "mkdir"
    /\ job' = [job EXCEPT !.pc = IF ok THEN "backup" ELSE "restore"]
    /\ UNCHANGED << now, file, backup, cachedDatabase, cacheLoadedAt, lookupCache, config,
                    qrzSession, hamqthSession, lk, rq >>
    /\ UNCHANGED << gate, batch, sg, pf >>

\* the backup: read the database file and write it to the backup file; a
\* missing file or a failed write is swallowed by the inner catch
JobBackup(ok) ==
    /\ job.pc = "backup"
    /\ backup' = IF file = "missing" THEN backup
                 ELSE IF ok THEN file ELSE "partial"
    /\ job' = [job EXCEPT !.pc = IF job.variant = "discover" THEN "fetchUrl"
                                 ELSE "download"]
    /\ UNCHANGED << now, file, cachedDatabase, cacheLoadedAt, lookupCache, config,
                    qrzSession, hamqthSession, lk, rq >>
    /\ UNCHANGED << gate, batch, sg, pf >>

\* getCurrentPdfUrl()
JobFetchUrl(ok) ==
    /\ job.pc = "fetchUrl"
    /\ job' = [job EXCEPT !.pc = IF ok THEN "download" ELSE "restore"]
    /\ UNCHANGED << now, file, backup, cachedDatabase, cacheLoadedAt, lookupCache, config,
                    qrzSession, hamqthSession, lk, rq >>
    /\ UNCHANGED << gate, batch, sg, pf >>

\* downloadUrl(pdfUrl) / downloadPdf(PDF_URL)
JobDownload(ok) ==
    /\ job.pc = "download"
    /\ job' = [job EXCEPT !.pc = IF ok THEN "parse" ELSE "restore"]
    /\ UNCHANGED << now, file, backup, cachedDatabase, cacheLoadedAt, lookupCache, config,
                    qrzSession, hamqthSession, lk, rq >>
    /\ UNCHANGED << gate, batch, sg, pf >>

\* extractFromPdf fails, or yields the rows `rows`; then normalise, deduplicate,
\* sort, build the database object, validate and decide
JobParse(ok, rows) ==
    /\ job.pc = "parse"
    /\ rows \in RowSets
    /\ IF ~ok THEN job' = [job EXCEPT !.pc = "restore"]
       ELSE LET validation == validateDatabase(BuildDatabase(rows))
            IN job' = [job EXCEPT
                         !.db = rows,
                         !.errors = Len(validation.errors),
                         !.warnings = Len(validation.warnings),
                         !.pc = IF ValidationBlocks(validation) THEN "restore"
                                ELSE "save"]
    /\ UNCHANGED << now, file, backup, cachedDatabase, cacheLoadedAt, lookupCache, config,
                    qrzSession, hamqthSession, lk, rq >>
    /\ UNCHANGED << gate, batch, sg, pf >>

\* fs.writeFile(OUTPUT_FILE, JSON.stringify(database)) opens and truncates ...
JobSaveBegin ==
    /\ job.pc = "save"
    /\ file' = "partial"
    /\ job' = [job EXCEPT !.pc = "saving", !.saved = TRUE]
    /\ UNCHANGED << now, backup, cachedDatabase, cacheLoadedAt, lookupCache, config,
                    qrzSession, hamqthSession, lk, rq >>
    /\ UNCHANGED << gate, batch, sg, pf >>

\* ... and completes, or fails half-way and is caught by the outer catch
JobSaveEnd(ok) ==
    /\ job.pc = "saving"
    /\ IF ok
       THEN /\ file' = job.db
            /\ job' = [job EXCEPT !.pc = "exited", !.status = 0]
       ELSE /\ file' = file
            /\ job' = [job EXCEPT !.pc = "restore"]
    /\ UNCHANGED << now, backup, cachedDatabase, cacheLoadedAt, lookupCache, config,
                    qrzSession, hamqthSession, lk, rq >>
    /\ UNCHANGED << gate, batch, sg, pf >>

\* restore: read the backup file and write it over the database file (a
\* missing backup or a failed write is swallowed), then process.exit(1)
JobRestore(ok) ==
    /\ job.pc = "restore"
    /\ file' = IF backup = "missing" THEN file
               ELSE IF ok THEN backup ELSE "partial"
    /\ job' = [job EXCEPT !.pc = "exited", !.status = 1]
    /\ UNCHANGED << now, backup, cachedDatabase, cacheLoadedAt, lookupCache, config,
                    qrzSession, hamqthSession, lk, rq >>
    /\ UNCHANGED << gate, batch, sg, pf >>

\* the process is gone; the scheduler may start the next run
JobExit ==
    /\ job.pc = "exited"
    /\ job' = IdleJob
    /\ UNCHANGED << now, file, backup, cachedDatabase, cacheLoadedAt, lookupCache, config,
                    qrzSession, hamqthSession, lk, rq >>
    /\ UNCHANGED << gate, batch, sg, pf >>

NextRebuild ==
    \/ \E variant \in JobVariants : JobStart(variant)
    \/ \E ok \in BOOLEAN : JobMkdir(ok)
    \/ \E ok \in BOOLEAN : JobBackup(ok)
    \/ \E ok \in BOOLEAN : JobFetchUrl(ok)
    \/ \E ok \in BOOLEAN : JobDownload(ok)
    \/ \E ok \in BOOLEAN, rows \in RowSets : JobParse(ok, rows)
    \/ JobSaveBegin
    \/ \E ok \in BOOLEAN : JobSaveEnd(ok)
    \/ \E ok \in BOOLEAN : JobRestore(ok)
    \/ JobExit

\* ------------------------------------------------------------------------
\* makeRequest (sources/qrz.ts, sources/hamqth.ts): the minimum-interval gate
\* ------------------------------------------------------------------------
MaxCallers == 2

MaxRequests == 3

MIN_REQUEST_INTERVAL == 1000

\* the clock of the model starts when the process does, long after the epoch
StartTime == 1000000

DateNow == StartTime + now

Sources == {"qrz", "hamqth"}

Callers == 1..MaxCallers

IdleCaller == [pc |-> "idle", src |-> "qrz", wakeAt |-> 0]

\* lastRequestTime of each module; started is kept for the record: the times
\* at which https.get was called
IdleGate ==
    [ lastRequestTime |-> [s \in Sources |-> 0],
      started |-> [s \in Sources |-> <<>>],
      callers |-> [c \in Callers |-> IdleCaller] ]

\* lastRequestTime = Date.now(); https.get(url, ...)
Issue(g, c, src) ==
    [g EXCEPT !.lastRequestTime[src] = DateNow,
              !.started[src] = Append(@, DateNow),
              !.callers[c] = [pc |-> "requesting", src |-> src, wakeAt |-> 0]]

\* makeRequest up to its first await: the timer, or the request itself
MakeRequest(c, src) ==
    /\ gate.callers[c].pc = "idle"
    /\ Len(gate.started[src]) < MaxRequests
    /\ LET timeSinceLastRequest == DateNow - gate.lastRequestTime[src]
       IN IF timeSinceLastRequest < MIN_REQUEST_INTERVAL
          THEN gate' = [gate EXCEPT !.callers[c] =
                          [pc |-> "waiting", src |-> src,
                           wakeAt |-> now + (MIN_REQUEST_INTERVAL - timeSinceLastRequest)]]
          ELSE gate' = Issue(gate, c, src)
    /\ UNCHANGED << now, file, backup, cachedDatabase, cacheLoadedAt, lookupCache, config,
                    qrzSession, hamqthSession, lk, rq, job, batch, sg, pf >>

\* the timer has fired: makeRequest goes on
TimerFired(c) ==
    /\ gate.callers[c].pc = "waiting"
    /\ now >= gate.callers[c].wakeAt
    /\ gate' = Issue(gate, c, gate.callers[c].src)
    /\ UNCHANGED << now, file, backup, cachedDatabase, cacheLoadedAt, lookupCache, config,
                    qrzSession, hamqthSession, lk, rq, job, batch, sg, pf >>

\* the response, an error or the timeout: the promise is settled
RequestSettled(c) ==
    /\ gate.callers[c].pc = "requesting"
    /\ gate' = [gate EXCEPT !.callers[c] = IdleCaller]
    /\ UNCHANGED << now, file, backup, cachedDatabase, cacheLoadedAt, lookupCache, config,
                    qrzSession, hamqthSession, lk, rq, job, batch, sg, pf >>

\* ------------------------------------------------------------------------
\* lookupMultiple (lookup.ts)
\* ------------------------------------------------------------------------
MaxBatch == 6

\* variant: the whole batch in one wave
CONCURRENCYMut == MaxBatch

CONCURRENCY == 5

BatchCallsigns ==
    { <<"o","e","1","a","b">>, <<"O","E","1","A","B">>, <<"d","l","1","x","y">> }

RECURSIVE SeqsUpTo(_, _)
SeqsUpTo(S, n) ==
    IF n = 0 THEN { <<>> }
    ELSE LET shorter == SeqsUpTo(S, n - 1)
         IN shorter \cup { Append(s, x) : s \in { t \in shorter : Len(t) = n - 1 }, x \in S }

BatchInputs == SeqsUpTo(BatchCallsigns, MaxBatch)

\* input and finished are kept for the record: the list passed in, and how
\* many of its elements belong to waves that have ended
IdleBatch ==
    [ pc |-> "idle", queue |-> <<>>, wave |-> <<>>, settled |-> {},
      results |-> <<>>, input |-> <<>>, finished |-> 0 ]

Min(a, b) == IF a < b THEN a ELSE b

\* the head of the while loop: queue.splice(0, CONCURRENCY) and the calls of
\* lookupCallsign for the batch, or the return of the map
NextWave(b) ==
    IF Len(b.queue) = 0 THEN [b EXCEPT !.pc = "done", !.wave = <<>>, !.settled = {}]
    ELSE LET n == Min(CONCURRENCY, Len(b.queue))
         IN [b EXCEPT !.pc = "running",
                      !.wave = SubSeq(b.queue, 1, n),
                      !.queue = SubSeq(b.queue, n + 1, Len(b.queue)),
                      !.settled = {}]

\* batch.forEach((cs, idx) => results.set(cs.toUpperCase(), batchResults[idx]))
RECURSIVE SetResults(_, _, _)
SetResults(results, wave, idx) ==
    IF idx > Len(wave) THEN results
    ELSE LET key == toUpperCase(wave[idx])
         IN SetResults([k \in DOMAIN results \cup {key} |->
                           IF k = key THEN [callsign |-> wave[idx]] ELSE results[k]],
                       wave, idx + 1)

lookupMultiple(callsigns) ==
    /\ batch.pc = "idle"
    /\ batch' = NextWave([IdleBatch EXCEPT !.queue = callsigns, !.input = callsigns])
    /\ UNCHANGED << now, file, backup, cachedDatabase, cacheLoadedAt, lookupCache, config,
                    qrzSession, hamqthSession, lk, rq, job, gate, sg, pf >>

\* one lookupCallsign of the wave returns, or throws: Promise.all rejects then
LookupSettled(idx, threw) ==
    /\ batch.pc = "running"
    /\ idx \in DOMAIN batch.wave \ batch.settled
    /\ batch' = IF threw THEN [batch EXCEPT !.pc = "failed"]
                ELSE [batch EXCEPT !.settled = @ \cup {idx}]
    /\ UNCHANGED << now, file, backup, cachedDatabase, cacheLoadedAt, lookupCache, config,
                    qrzSession, hamqthSession, lk, rq, job, gate, sg, pf >>

\* Promise.all has resolved: the results are stored and the loop goes round
WaveEnds ==
    /\ batch.pc = "running"
    /\ batch.settled = DOMAIN batch.wave
    /\ batch' = NextWave([batch EXCEPT
                            !.results = SetResults(@, batch.wave, 1),
                            !.finished = @ + Len(batch.wave)])
    /\ UNCHANGED << now, file, backup, cachedDatabase, cacheLoadedAt, lookupCache, config,
                    qrzSession, hamqthSession, lk, rq, job, gate, sg, pf >>

\* the caller has the map, or the rejection
BatchReturn ==
    /\ batch.pc \in {"done", "failed"}
    /\ batch' = IdleBatch
    /\ UNCHANGED << now, file, backup, cachedDatabase, cacheLoadedAt, lookupCache, config,
                    qrzSession, hamqthSession, lk, rq, job, gate, sg, pf >>

\* ------------------------------------------------------------------------
\* Suggestions (suggest.ts)
\* ------------------------------------------------------------------------
\* scores are numbers with two decimals; the model holds them in hundredths

\* MORSE_WEIGHTS[char] || 4
MORSE_WEIGHTS(char) ==
    CASE char \in {"E", "T"} -> 1
      [] char \in {"A", "I", "M", "N"} -> 2
      [] char \in {"D", "G", "K", "O", "R", "S", "U", "W"} -> 3
      [] OTHER -> 4

RECURSIVE TotalWeight(_)
TotalWeight(s) ==
    IF s = <<>> THEN 0 ELSE MORSE_WEIGHTS(Head(s)) + TotalWeight(Tail(s))

\* Math.round(100 * num / den) for num >= 0, den > 0
RoundPercent(num, den) == (200 * num + den) \div (2 * den)

\* calculateCwScore, in hundredths; 1 - (total - min) / (max - min) is
\* (max - total) / (max - min)
calculateCwScore(suffix) ==
    IF suffix = <<>> THEN 0
    ELSE LET totalWeight == TotalWeight(toUpperCase(suffix))
             maxWeight == Len(suffix) * 4
             minWeight == Len(suffix) * 1
         IN RoundPercent(maxWeight - totalWeight, maxWeight - minWeight)

Vowels == {"A", "E", "I", "O", "U"}

\* pattern.test(upper) for /[class]{n,}/: n characters of the class in a row
HasRun(upper, class, n) ==
    \E i \in 1..(Len(upper) - n + 1) : \A k \in 0..(n - 1) : upper[i + k] \in class

SimilarPatterns ==
    << <<"M","N">>, <<"N","M">>, <<"B","D">>, <<"D","B">>,
       <<"P","B">>, <<"B","P">>, <<"F","V">>, <<"V","F">> >>

Max(a, b) == IF a > b THEN a ELSE b

\* calculatePhoneticScore, in hundredths (the steps of the score are tenths)
calculatePhoneticScore(suffix) ==
    IF suffix = <<>> THEN 0
    ELSE LET upper == toUpperCase(suffix)
             vowels == Cardinality({ i \in 1..Len(upper) : upper[i] \in Vowels })
             pattern == IF vowels = 0 THEN -30
                        ELSE IF vowels = Len(upper) THEN -10
                        ELSE 10 * Min(vowels, 2)
             difficult == (IF HasRun(upper, {"X", "Q", "Z"}, 2) THEN 20 ELSE 0)
                        + (IF HasRun(upper, {"B", "C", "D", "G", "K", "P", "T"}, 3) THEN 20 ELSE 0)
                        + (IF HasRun(upper, Vowels, 3) THEN 20 ELSE 0)
             confusing == IF HasRun(upper, {"O", "I"}, 1) THEN 10 ELSE 0
             similar == 10 * Cardinality({ k \in 1..Len(SimilarPatterns) :
                                             includes(upper, SimilarPatterns[k]) })
             score == 100 + pattern - difficult - confusing - similar
         IN Max(0, Min(100, score))

\* s.substring(a, b) for 0 <= a <= b
substring(s, a, b) == SubSeq(s, a + 1, Min(b, Len(s)))

\* s.replace(/[AEIOU]/g, '') and name.replace(/[^A-Z\s]/g, '')
RECURSIVE Without(_, _)
Without(s, chars) ==
    IF s = <<>> THEN <<>>
    ELSE IF Head(s) \in chars THEN Without(Tail(s), chars)
    ELSE <<Head(s)>> \o Without(Tail(s), chars)

RECURSIVE Only(_, _)
Only(s, chars) ==
    IF s = <<>> THEN <<>>
    ELSE IF Head(s) \in chars THEN <<Head(s)>> \o Only(Tail(s), chars)
    ELSE Only(Tail(s), chars)

\* phoneticMap[firstName], <<>> for undefined
phoneticMap(firstName) ==
    CASE firstName = <<"M","I","C","H","A","E","L">> ->
             << <<"M","I","C">>, <<"M","I","K">>, <<"M","H","L">> >>
      [] firstName = <<"T","H","O","M","A","S">> ->
             << <<"T","O","M">>, <<"T","H","S">>, <<"T","M","S">> >>
      [] firstName = <<"S","T","E","F","A","N">> ->
             << <<"S","T","F">>, <<"S","T","E">>, <<"S","T","N">> >>
      [] firstName = <<"A","N","D","R","E","A","S">> ->
             << <<"A","N","D">>, <<"A","D","S">>, <<"A","N","S">> >>
      [] firstName = <<"C","H","R","I","S","T","I","A","N">> ->
             << <<"C","H","R">>, <<"C","R","S">>, <<"C","H","N">> >>
      [] firstName = <<"M","A","R","T","I","N">> ->
             << <<"M","A","R">>, <<"M","R","T">>, <<"M","T","N">> >>
      [] firstName = <<"P","E","T","E","R">> ->
             << <<"P","E","T">>, <<"P","T","R">>, <<"P","T","E">> >>
      [] firstName = <<"F","R","A","N","Z">> ->
             << <<"F","R","Z">>, <<"F","R","A">>, <<"F","N","Z">> >>
      [] firstName = <<"W","O","L","F","G","A","N","G">> ->
             << <<"W","O","L">>, <<"W","F","G">>, <<"W","L","F">> >>
      [] firstName = <<"H","A","N","S">> ->
             << <<"H","N","S">>, <<"H","A","S">>, <<"H","A","N">> >>
      [] firstName = <<"J","O","S","E","F">> ->
             << <<"J","O","S">>, <<"J","S","F">>, <<"J","O","E">> >>
      [] firstName = <<"K","A","R","L">> ->
             << <<"K","R","L">>, <<"K","A","R">>, <<"K","A","L">> >>
      [] firstName = <<"H","E","L","M","U","T">> ->
             << <<"H","L","M">>, <<"H","M","T">>, <<"H","E","L">> >>
      [] OTHER -> <<>>

\* variant: club suffixes are proposed too
addCandidateMut(candidates, suffix, derivation, excludeClub) ==
    LET upper == toUpperCase(suffix)
    IN IF Len(upper) < 2 \/ Len(upper) > 3 THEN candidates
       ELSE IF ~AllIn(upper, UpperLetters) THEN candidates
       ELSE IF \E i \in 1..Len(candidates) : candidates[i].suffix = upper THEN candidates
       ELSE Append(candidates, [suffix |-> upper, derivation |-> derivation])

\* addCandidate: the candidates after suffix has been proposed
addCandidate(candidates, suffix, derivation, excludeClub) ==
    LET upper == toUpperCase(suffix)
    IN IF Len(upper) < 2 \/ Len(upper) > 3 THEN candidates
       ELSE IF ~AllIn(upper, UpperLetters) THEN candidates
       ELSE IF excludeClub /\ startsWith(upper, <<"X">>) THEN candidates
       ELSE IF \E i \in 1..Len(candidates) : candidates[i].suffix = upper THEN candidates
       ELSE Append(candidates, [suffix |-> upper, derivation |-> derivation])

RECURSIVE AddAll(_, _, _, _)
AddAll(candidates, proposals, i, excludeClub) ==
    IF i > Len(proposals) THEN candidates
    ELSE AddAll(addCandidate(candidates, proposals[i][1], proposals[i][2], excludeClub),
                proposals, i + 1, excludeClub)

\* one guarded call of addCandidate: the pair it proposes, if its condition holds
When(cond, suffix, derivation) == IF cond THEN << <<suffix, derivation>> >> ELSE <<>>

RECURSIVE Variants(_, _)
Variants(list, derivation) ==
    IF list = <<>> THEN <<>>
    ELSE << <<Head(list), derivation>> >> \o Variants(Tail(list), derivation)

\* parts.filter(p => p.length > 0)
RECURSIVE NonEmpty(_)
NonEmpty(parts) ==
    IF parts = <<>> THEN <<>>
    ELSE IF Head(parts) = <<>> THEN NonEmpty(Tail(parts))
    ELSE <<Head(parts)>> \o NonEmpty(Tail(parts))

\* generateCandidatesFromName: the calls of addCandidate in their order
generateCandidatesFromName(name, excludeClub) ==
    LET cleanName == trim(Only(toUpperCase(name), UpperLetters \cup WhiteSpace))
        parts == NonEmpty(splitWs(cleanName))
    IN IF Len(parts) = 0 THEN <<>>
       ELSE
       LET firstName == parts[1]
           lastName == IF Len(parts) > 1 THEN parts[Len(parts)] ELSE <<>>
           F == Len(firstName)
           L == Len(lastName)
           firstConsonants == substring(Without(firstName, Vowels), 0, 3)
           lastConsonants == substring(Without(lastName, Vowels), 0, 3)
           proposals ==
                When(L > 0, <<firstName[1], lastName[1]>>, "Initialen")
             \o When(L > 0 /\ F >= 2, substring(firstName, 0, 2) \o <<lastName[1]>>,
                   "Vorname + Initial")
             \o When(L >= 2, <<firstName[1]>> \o substring(lastName, 0, 2),
                   "Initial + Nachname")
             \o When(F >= 2, substring(firstName, 0, 2), "Vorname (2 Buchstaben)")
             \o When(F >= 3, substring(firstName, 0, 3), "Vorname (3 Buchstaben)")
             \o When(L >= 2, substring(lastName, 0, 2), "Nachname (2 Buchstaben)")
             \o When(L >= 3, substring(lastName, 0, 3), "Nachname (3 Buchstaben)")
             \o When(Len(firstConsonants) >= 2, substring(firstConsonants, 0, 2),
                   "Konsonanten Vorname")
             \o When(Len(firstConsonants) >= 3, firstConsonants, "Konsonanten Vorname")
             \o When(L > 0 /\ Len(lastConsonants) >= 2, substring(lastConsonants, 0, 2),
                   "Konsonanten Nachname")
             \o When(L >= 2, <<"Y">> \o substring(lastName, 0, 2), "Y + Nachname")
             \o Variants(phoneticMap(firstName), "Phonetische Variante")
       IN AddAll(<<>>, proposals, 1, excludeClub)

\* one call of generateSuggestions or generateRandomSuggestions: its
\* arguments, its locals, and what it returned
IdleSuggest ==
    [ pc |-> "idle", op |-> "", name |-> <<>>, district |-> <<>>, max_results |-> 0,
      exclude_club |-> FALSE, min_phonetic_score |-> 0, candidates |-> <<>>, i |-> 1,
      checked |-> <<>>, scored |-> <<>>, count |-> 0, length |-> 0, attempts |-> 0,
      tried |-> {}, result |-> <<>>, error |-> "" ]

\* preferred_district ? [preferred_district] : undefined
DistrictsArg(district) ==
    IF district # <<>> /\ district[1] # 0 THEN << <<district[1]>> >> ELSE <<>>

\* a.available_districts.includes(preferred_district)
InPreferred(a, district) ==
    \E k \in 1..Len(a.available_districts) : a.available_districts[k] = district[1]

\* phonetic_score * 0.6 + cw_score * 0.4, in thousandths
CombinedScore(a) == 6 * a.phonetic_score + 4 * a.cw_score

\* variant: the lower combined score goes first
CompareMut(a, b, district) == CombinedScore(a) - CombinedScore(b)

\* the comparator of scored.sort: negative when a goes first
Compare(a, b, district) ==
    IF district # <<>> /\ district[1] # 0
       /\ InPreferred(a, district) /\ ~InPreferred(b, district) THEN -1
    ELSE IF district # <<>> /\ district[1] # 0
            /\ ~InPreferred(a, district) /\ InPreferred(b, district) THEN 1
    ELSE CombinedScore(b) - CombinedScore(a)

\* Array.prototype.sort is stable: x goes before the first element it beats
RECURSIVE InsertRanked(_, _, _)
InsertRanked(x, sorted, district) ==
    IF sorted = <<>> THEN <<x>>
    ELSE IF Compare(x, Head(sorted), district) < 0 THEN <<x>> \o sorted
    ELSE <<Head(sorted)>> \o InsertRanked(x, Tail(sorted), district)

RECURSIVE SortRanked(_, _, _)
SortRanked(list, i, district) ==
    IF i = 0 THEN <<>>
    ELSE InsertRanked(list[i], SortRanked(list, i - 1, district), district)

\* scored.slice(0, max_results) for max_results >= 0
slice(list, n) == SubSeq(list, 1, Min(n, Len(list)))

\* variant: no candidate is passed over
NextScoredMut(candidates, i, min) == i

\* the index of the next candidate at or after i that reaches the minimum
\* phonetic score (the others are passed over by continue)
RECURSIVE NextScored(_, _, _)
NextScored(candidates, i, min) ==
    IF i > Len(candidates) THEN i
    ELSE IF calculatePhoneticScore(candidates[i].suffix) < min
    THEN NextScored(candidates, i + 1, min)
    ELSE i

\* generateSuggestions(options) up to the loop over the candidates
generateSuggestions(name, preferred_district, max_results, exclude_club, min_phonetic_score) ==
    /\ sg.pc = "idle"
    /\ sg' = [IdleSuggest EXCEPT
                !.pc = "scoring", !.op = "generateSuggestions", !.name = name,
                !.district = preferred_district, !.max_results = max_results,
                !.exclude_club = exclude_club,
                !.min_phonetic_score = min_phonetic_score,
                !.candidates = generateCandidatesFromName(name, exclude_club)]
    /\ UNCHANGED << now, file, backup, cachedDatabase, cacheLoadedAt, lookupCache, config,
                    qrzSession, hamqthSession, lk, rq, job >>
    /\ UNCHANGED << gate, batch, pf >>

\* the loop of generateSuggestions from one availability check to the next:
\* the candidates below the minimum are passed over, the next one is checked
\* against the database loadDatabase returns; after the last one, the sort
\* and the slice
SuggestStep ==
    /\ sg.pc = "scoring"
    /\ LET j == NextScored(sg.candidates, sg.i, sg.min_phonetic_score)
       IN IF j > Len(sg.candidates)
          THEN /\ sg' = [sg EXCEPT !.pc = "done", !.i = j,
                           !.result = slice(SortRanked(sg.scored, Len(sg.scored),
                                                       sg.district),
                                            sg.max_results)]
               /\ UNCHANGED << cachedDatabase, cacheLoadedAt >>
          ELSE IF ~SnapshotValid /\ file \notin RowSets
          THEN /\ sg' = [sg EXCEPT !.pc = "done", !.i = j,
                           !.checked = Append(@, sg.candidates[j].suffix),
                           !.error = IF file = "missing" THEN DbNotFoundError
                                     ELSE JsonSyntaxError]
               /\ UNCHANGED << cachedDatabase, cacheLoadedAt >>
          ELSE LET id == IF SnapshotValid THEN cachedDatabase ELSE file
                   suffix == sg.candidates[j].suffix
                   availability == checkSuffixAvailabilityIn(Database(id), suffix,
                                                             DistrictsArg(sg.district))
               IN /\ cachedDatabase' = id
                  /\ cacheLoadedAt' = IF SnapshotValid THEN cacheLoadedAt ELSE now
                  /\ sg' = [sg EXCEPT
                              !.i = j + 1,
                              !.checked = Append(@, suffix),
                              !.scored =
                                 IF Len(availability.available_districts) = 0 THEN @
                                 ELSE Append(@,
                                   [ suffix |-> suffix,
                                     available_districts |->
                                        availability.available_districts,
                                     phonetic_score |-> calculatePhoneticScore(suffix),
                                     cw_score |-> calculateCwScore(suffix),
                                     derivation |-> sg.candidates[j].derivation ])]
    /\ UNCHANGED << now, file, backup, lookupCache, config,
                    qrzSession, hamqthSession, lk, rq, job >>
    /\ UNCHANGED << gate, batch, pf >>

\* the caller has the array, or the rejection
SuggestReturn ==
    /\ sg.pc = "done"
    /\ sg' = IdleSuggest
    /\ UNCHANGED << now, file, backup, cachedDatabase, cacheLoadedAt, lookupCache, config,
                    qrzSession, hamqthSession, lk, rq, job >>
    /\ UNCHANGED << gate, batch, pf >>

\* generateRandomSuggestions: const maxAttempts = count * 20
AttemptsPerResult == 20

\* variant: X stays in the letters
lettersMut(excludeClub) == { UpperSeq[i] : i \in 1..26 }

\* the letters the suffix is drawn from
letters(excludeClub) ==
    IF excludeClub THEN { UpperSeq[i] : i \in 1..26 } \ {"X"}
    ELSE { UpperSeq[i] : i \in 1..26 }

\* the letters Math.random is taken to pick in the runs explored
SampleLetters == {"A", "B", "X"}

\* the suffixes of the given length the inner loop can build
RandomSuffixes(length, excludeClub) ==
    { s \in [1..length -> letters(excludeClub) \cap SampleLetters] : TRUE }

\* generateRandomSuggestions(count, {district, length, excludeClub}) up to
\* the while loop
generateRandomSuggestions(count, district, length, excludeClub) ==
    /\ sg.pc = "idle"
    /\ sg' = [IdleSuggest EXCEPT
                !.pc = "drawing", !.op = "generateRandomSuggestions", !.count = count,
                !.district = district, !.length = length, !.exclude_club = excludeClub]
    /\ UNCHANGED << now, file, backup, cachedDatabase, cacheLoadedAt, lookupCache, config,
                    qrzSession, hamqthSession, lk, rq, job >>
    /\ UNCHANGED << gate, batch, pf >>

\* one turn of the while loop, the suffix being the one Math.random built
RandomAttempt(suffix) ==
    /\ sg.pc = "drawing"
    /\ Len(sg.scored) < sg.count /\ sg.attempts < sg.count * AttemptsPerResult
    /\ suffix \in RandomSuffixes(sg.length, sg.exclude_club)
    /\ IF suffix \in sg.tried
       THEN /\ sg' = [sg EXCEPT !.attempts = @ + 1]
            /\ UNCHANGED << cachedDatabase, cacheLoadedAt >>
       ELSE IF ~SnapshotValid /\ file \notin RowSets
       THEN /\ sg' = [sg EXCEPT !.pc = "done", !.attempts = @ + 1,
                        !.tried = @ \cup {suffix},
                        !.checked = Append(@, suffix),
                        !.error = IF file = "missing" THEN DbNotFoundError
                                  ELSE JsonSyntaxError]
            /\ UNCHANGED << cachedDatabase, cacheLoadedAt >>
       ELSE LET id == IF SnapshotValid THEN cachedDatabase ELSE file
                availability == checkSuffixAvailabilityIn(Database(id), suffix,
                                                          DistrictsArg(sg.district))
            IN /\ cachedDatabase' = id
               /\ cacheLoadedAt' = IF SnapshotValid THEN cacheLoadedAt ELSE now
               /\ sg' = [sg EXCEPT
                           !.attempts = @ + 1,
                           !.tried = @ \cup {suffix},
                           !.checked = Append(@, suffix),
                           !.scored =
                              IF Len(availability.available_districts) = 0 THEN @
                              ELSE Append(@,
                                [ suffix |-> suffix,
                                  available_districts |-> availability.available_districts,
                                  phonetic_score |-> calculatePhoneticScore(suffix),
                                  cw_score |-> calculateCwScore(suffix),
                                  derivation |-> "Zufaellig generiert" ])]
    /\ UNCHANGED << now, file, backup, lookupCache, config,
                    qrzSession, hamqthSession, lk, rq, job >>
    /\ UNCHANGED << gate, batch, pf >>

\* the loop condition fails: return suggestions
RandomDone ==
    /\ sg.pc = "drawing"
    /\ ~(Len(sg.scored) < sg.count /\ sg.attempts < sg.count * AttemptsPerResult)
    /\ sg' = [sg EXCEPT !.pc = "done", !.result = sg.scored]
    /\ UNCHANGED << now, file, backup, cachedDatabase, cacheLoadedAt, lookupCache, config,
                    qrzSession, hamqthSession, lk, rq, job >>
    /\ UNCHANGED << gate, batch, pf >>
\* ------------------------------------------------------------------------
\* The functions of the rebuild pipeline, applied one at a time
\* (parser/normalize.ts, parser/validate.ts, parser/extract.ts)
\* ------------------------------------------------------------------------
\* op is the function applied, arg what it was given (as the call left it),
\* out what it returned
IdleApply == [ op |-> "", arg |-> <<>>, out |-> <<>> ]

\* longest list of records handed to deduplicateEntries and sortEntries
MaxEntries == 4

\* rows of the list: two holders of one callsign, a hidden holder, callsigns
\* one the prefix of the other
PoolRows ==
    << [callsign |-> <<"O","E","2","C","D">>, name |-> <<"H","U","B","E","R"," ","E","V","A">>,
        location |-> <<"5","0","2","0"," ","S","a","l","z","b","u","r","g">>, address |-> <<"W","e","g"," ","2">>, licenseClass |-> <<"3">>],
       [callsign |-> <<"O","E","1","A","B">>, name |-> <<"M","U","S","T","E","R"," ","H","A","N","S">>,
        location |-> <<"1","0","1","0"," ","W","i","e","n">>, address |-> <<"R","i","n","g"," ","1">>, licenseClass |-> <<"1">>],
       [callsign |-> <<"O","E","1","A","B">>, name |-> <<"N","E","U"," ","U","D","O">>,
        location |-> <<"1","0","2","0"," ","W","i","e","n">>, address |-> <<"R","i","n","g"," ","2">>, licenseClass |-> <<"2">>],
       [callsign |-> <<"O","E","1","A">>, name |-> <<"*","-","*","-","*">>,
        location |-> <<"*","-","*","-","*">>, address |-> <<"*","-","*","-","*">>, licenseClass |-> <<"1">>],
       [callsign |-> <<"O","E","1","A","B","C">>, name |-> <<"M","O","S","E","R">>,
        location |-> <<"6","9","0","0"," ","B","r","e","g","e","n","z">>, address |-> <<"W","e","g"," ","9">>, licenseClass |-> <<"4">>] >>

EntryPool == normalizeAll(PoolRows)

\* the lists of at most n records of the pool
RECURSIVE EntryLists(_)
EntryLists(n) ==
    IF n = 0 THEN { <<>> }
    ELSE LET shorter == EntryLists(n - 1)
         IN shorter \cup { Append(l, EntryPool[k]) :
                             l \in { s \in shorter : Len(s) = n - 1 },
                             k \in 1..Len(EntryPool) }

\* one row of the extraction (RawCallsignRow)
RawRow(callsign, name, location, address, licenseClass) ==
    [ callsign |-> callsign, name |-> name, location |-> location,
      address |-> address, licenseClass |-> licenseClass ]

\* what an application of a pure function leaves alone
Elsewhere ==
    << now, file, backup, cachedDatabase, cacheLoadedAt, lookupCache, config,
       qrzSession, hamqthSession, lk, rq, job, gate, batch, sg >>

\* unique = deduplicateEntries(entries)
Deduplicate(entries) ==
    /\ pf.op = ""
    /\ pf' = [ op |-> "deduplicateEntries", arg |-> entries,
               out |-> deduplicateEntries(entries) ]
    /\ UNCHANGED Elsewhere

\* deduplicateEntries(unique), on what the call before returned
DeduplicateAgain ==
    /\ pf.op = "deduplicateEntries"
    /\ pf' = [ op |-> "deduplicateEntries", arg |-> pf.out,
               out |-> deduplicateEntries(pf.out) ]
    /\ UNCHANGED << now, file, backup, cachedDatabase, cacheLoadedAt, lookupCache, config,
                    qrzSession, hamqthSession, lk, rq, job, gate, batch, sg >>

\* sorted = sortEntries(entries): the spread copy is sorted, entries is left
\* as it was
Sort(entries) ==
    /\ pf.op = ""
    /\ pf' = [ op |-> "sortEntries", arg |-> entries, out |-> sortEntries(entries) ]
    /\ UNCHANGED Elsewhere

\* the caller is done with the value
ApplyReturn ==
    /\ pf.op # ""
    /\ pf' = IdleApply
    /\ UNCHANGED << now, file, backup, cachedDatabase, cacheLoadedAt, lookupCache, config,
                    qrzSession, hamqthSession, lk, rq, job, gate, batch, sg >>

\* normalizeEntry(r1) and normalizeEntry(r2), side by side, for two rows of
\* one callsign and class
NormalizePair(callsign, n1, l1, a1, n2, l2, a2, licenseClass) ==
    /\ pf.op = ""
    /\ LET r1 == RawRow(callsign, n1, l1, a1, licenseClass)
           r2 == RawRow(callsign, n2, l2, a2, licenseClass)
       IN pf' = [ op |-> "normalizeEntry", arg |-> <<r1, r2>>,
                  out |-> <<normalizeEntry(r1), normalizeEntry(r2)>> ]
    /\ UNCHANGED Elsewhere

\* the database object of main(), as far as validateDatabase reads it
DatabaseOf(entries) ==
    [ version |-> "", sourceUrl |-> "https://www.fb.gv.at/", parsedAt |-> "",
      count |-> Len(entries), entries |-> entries ]

\* one record of every district of the set, in ascending order
RECURSIVE OnePerDistrict(_, _)
OnePerDistrict(districts, d) ==
    IF d > 9 THEN <<>>
    ELSE (IF d \in districts
          THEN normalizeEntry(RawRow(<<"O","E",DigitSeq[d + 1],"A","A">>, <<"M","U","S","T","E","R"," ","H","A","N","S">>,
                                     <<"1","0","1","0"," ","W","i","e","n">>, <<"R","i","n","g"," ","1">>, <<"1">>))
          ELSE <<>>)
         \o OnePerDistrict(districts, d + 1)

\* a second record of district 5, or a record that carries a district its
\* callsign does not have
ExtraEntries(extra) ==
    LET second == normalizeEntry(RawRow(<<"O","E","5","A","B">>, <<"H","U","B","E","R"," ","E","V","A">>, <<"4","0","2","0"," ","L","i","n","z">>, <<"W","e","g"," ","2">>, <<"2">>))
    IN CASE extra = "second" -> second
         [] extra = "foreign" -> << [second[1] EXCEPT !.district = 12] >>
         [] OTHER -> <<>>

\* validation = validateDatabase(database), for a database of the caller's
Validate(districts, extra) ==
    /\ pf.op = ""
    /\ LET entries == OnePerDistrict(districts, 0) \o ExtraEntries(extra)
       IN pf' = [ op |-> "validateDatabase", arg |-> entries,
                  out |-> validateDatabase(DatabaseOf(entries)) ]
    /\ UNCHANGED Elsewhere

RECURSIVE RowsOf(_)
RowsOf(callsigns) ==
    IF callsigns = <<>> THEN <<>>
    ELSE << RawRow(Head(callsigns), <<"M","U","S","T","E","R"," ","H","A","N","S">>, <<"1","0","1","0"," ","W","i","e","n">>, <<"R","i","n","g"," ","1">>, <<"1">>) >>
         \o RowsOf(Tail(callsigns))

\* main(): normalizeAll, deduplicateEntries, sortEntries, validateDatabase on
\* the rows of the extraction
Assemble(callsigns) ==
    /\ pf.op = ""
    /\ LET rows == RowsOf(callsigns)
           entries == sortEntries(deduplicateEntries(normalizeAll(rows)))
       IN pf' = [ op |-> "main", arg |-> rows,
                  out |-> [ entries |-> entries,
                            validation |-> validateDatabase(DatabaseOf(entries)) ] ]
    /\ UNCHANGED Elsewhere

\* ------------------------------------------------------------------------
\* Extraction of the rows from the text of the PDF (parser/extract.ts)
\* ------------------------------------------------------------------------
\* the length of the run of white space that starts at s[i]
RECURSIVE WsRun(_, _)
WsRun(s, i) ==
    IF i >= 1 /\ i <= Len(s) /\ IsWs(s[i]) THEN 1 + WsRun(s, i + 1) ELSE 0

\* rest.split(/\s{2,}/): cut at every maximal run of two or more white-space
\* characters; a single one stays inside its column
RECURSIVE SplitColumnsFrom(_, _, _, _)
SplitColumnsFrom(s, i, cur, out) ==
    IF i > Len(s) THEN Append(out, cur)
    ELSE LET run == WsRun(s, i)
         IN IF run >= 2 THEN SplitColumnsFrom(s, i + run, <<>>, Append(out, cur))
            ELSE SplitColumnsFrom(s, i + 1, Append(cur, s[i]), out)

splitColumns(s) == SplitColumnsFrom(s, 1, <<>>, <<>>)

\* [1-4]
ClassDigits == {"1", "2", "3", "4"}

\* /^[1-4]$/
IsClass(s) == Len(s) = 1 /\ s[1] \in ClassDigits

\* /\s+[1-4]$/ matches
EndsInClass(s) ==
    Len(s) >= 2 /\ s[Len(s)] \in ClassDigits /\ IsWs(s[Len(s) - 1])

\* s.replace(/\s+[1-4]$/, ''): the match starts where the run of white space
\* in front of the digit starts
StripClass(s) ==
    IF EndsInClass(s) THEN trimEnd(SubSeq(s, 1, Len(s) - 1)) ELSE s

\* rest.trim().slice(-1) || '1'
LastCharOrOne(rest) ==
    LET t == trim(rest)
    IN IF t = <<>> THEN <<"1">> ELSE << t[Len(t)] >>

Min2(a, b) == IF a < b THEN a ELSE b

Max2(a, b) == IF a > b THEN a ELSE b

\* /^(.+?)\s+(\d{4})\s+(\S+(?:\s+\S+)*)\s+(.+?)\s+([1-4])$/ with group 1
\* ending at a and group 3 ending at d: the greedy runs of white space in
\* front of the four digits and of group 3 are taken whole, as a digit and a
\* character that is no white space have to follow them
PlzStart(rest, a) == a + 1 + WsRun(rest, a + 1)

CityStart(rest, a) == PlzStart(rest, a) + 4 + WsRun(rest, PlzStart(rest, a) + 4)

PlzHead(rest, a) ==
    LET b == PlzStart(rest, a)
        c == CityStart(rest, a)
    IN /\ b > a + 1
       /\ b + 3 <= Len(rest)
       /\ \A i \in b..(b + 3) : rest[i] \in Digits
       /\ c > b + 4
       /\ c <= Len(rest)

\* group 3 can end at d: white space follows, and after it there is room for
\* group 4, one white-space character and the digit
PlzTail(rest, a, d) ==
    /\ d >= CityStart(rest, a)
    /\ d + 4 <= Len(rest)
    /\ ~IsWs(rest[d])
    /\ IsWs(rest[d + 1])

\* the match the backtracking finds first: group 1 as short as can be, then
\* group 3 as long as can be, then the white space in front of group 4 as
\* long as can be, then group 4 as short as can be
plzMatch(rest) ==
    LET n == Len(rest)
        firsts == { a \in 1..n : PlzHead(rest, a) /\ \E d \in 1..n : PlzTail(rest, a, d) }
    IN IF ~EndsInClass(rest) \/ firsts = {} THEN <<>>
       ELSE LET a == CHOOSE x \in firsts : \A y \in firsts : x <= y
                b == PlzStart(rest, a)
                c == CityStart(rest, a)
                lasts == { x \in 1..n : PlzTail(rest, a, x) }
                d == CHOOSE x \in lasts : \A y \in lasts : x >= y
                e == Min2(d + 1 + WsRun(rest, d + 1), n - 2)
                f == Max2(e, Len(trimEnd(SubSeq(rest, 1, n - 1))))
            IN << SubSeq(rest, 1, a), SubSeq(rest, b, b + 3), SubSeq(rest, c, d),
                  SubSeq(rest, e, f), << rest[n] >> >>

\* /^(.+?)\s+([1-4])$/: group 1 ends where the last run of white space starts
simpleMatch(rest) ==
    LET n == Len(rest)
        a == Max2(1, Len(trimEnd(SubSeq(rest, 1, n - 1))))
    IN IF ~EndsInClass(rest) \/ a > n - 2 THEN <<>>
       ELSE << SubSeq(rest, 1, a), << rest[n] >> >>

parseWithRegex(callsign, rest) ==
    LET plz == plzMatch(rest)
        simple == simpleMatch(rest)
    IN IF plz # <<>>
       THEN RawRow(callsign, trim(plz[1]), trim(plz[2] \o <<" ">> \o plz[3]),
                   trim(plz[4]), plz[5])
       ELSE IF simple # <<>>
       THEN RawRow(callsign, trim(simple[1]), <<>>, <<>>, simple[2])
       ELSE RawRow(callsign, trim(StripClass(rest)), <<>>, <<>>,
                   IF EndsInClass(rest) THEN << rest[Len(rest)] >> ELSE <<"1">>)

\* parseCallsignLine; addressIndex counts from 0 as in the source, so
\* parts.slice(1, addressIndex) is SubSeq(parts, 2, addressIndex)
parseCallsignLine(callsign, rest) ==
    IF includes(rest, HiddenMarker)
    THEN RawRow(callsign, HiddenMarker, HiddenMarker, HiddenMarker, LastCharOrOne(rest))
    ELSE LET parts == splitColumns(rest)
             n == Len(parts)
         IN IF n >= 4
            THEN LET lastPart == trim(parts[n])
                     licenseClass == IF IsClass(lastPart) THEN lastPart ELSE <<"1">>
                     address == IF IsClass(lastPart) THEN trim(parts[n - 1])
                                ELSE StripClass(lastPart)
                     addressIndex == IF IsClass(lastPart) THEN n - 2 ELSE n - 1
                 IN IF addressIndex > 2
                    THEN RawRow(callsign, trim(parts[1]),
                                trim(join(SubSeq(parts, 2, addressIndex), <<" ">>)),
                                address, licenseClass)
                    ELSE RawRow(callsign, trim(parts[1]), trim(parts[2]), address,
                                licenseClass)
            ELSE parseWithRegex(callsign, rest)

\* /^(OE[0-9][A-Z]{1,4})\s+(.+)$/ on the trimmed line: the length of group 1,
\* 0 when the line does not match
CallsignLength(trimmed) ==
    LET lens == { k \in 4..7 :
                    /\ k + 2 <= Len(trimmed)
                    /\ MatchesCallsignStructure(SubSeq(trimmed, 1, k))
                    /\ IsWs(trimmed[k + 1]) }
    IN IF lens = {} THEN 0 ELSE CHOOSE k \in lens : TRUE

\* the body of the loop of extractFromPdf for one line of the text: the rows
\* it pushes. The headers and footers skipped by their first word start with
\* no callsign and fail the pattern as well.
ExtractedRows(line) ==
    LET trimmed == trim(line)
        k == CallsignLength(trimmed)
    IN IF trimmed = <<>> THEN <<>>
       ELSE IF includes(trimmed, <<"S","e","i","t","e"," ">>) /\ includes(trimmed, <<" ","v","o","n"," ">>) THEN <<>>
       ELSE IF includes(trimmed, <<"S","t","a","n","d"," ","2","0">>) THEN <<>>
       ELSE IF k = 0 THEN <<>>
       ELSE << parseCallsignLine(SubSeq(trimmed, 1, k),
                                 trimStart(SubSeq(trimmed, k + 1, Len(trimmed)))) >>

\* rows = extractFromPdf(text) for a text of one line, entries = normalizeAll(rows)
Extract(line) ==
    /\ pf.op = ""
    /\ LET rows == ExtractedRows(line)
       IN pf' = [ op |-> "extractFromPdf", arg |-> line,
                  out |-> [ rows |-> rows, entries |-> normalizeAll(rows) ] ]
    /\ UNCHANGED Elsewhere

\* normalizeName(name) for the name written with the tokens one blank apart
NormalizeName(tokens) ==
    /\ pf.op = ""
    /\ pf' = [ op |-> "normalizeName", arg |-> join(tokens, <<" ">>),
               out |-> normalizeName(join(tokens, <<" ">>)) ]
    /\ UNCHANGED Elsewhere

\* ------------------------------------------------------------------------
\* The serving engine: initial state and the fallback chain
\* ------------------------------------------------------------------------
\* callsigns asked for: Austrian (in database A, not in B), foreign; too
\* short, with a character that is no letter or digit, empty, too long
RawCallsigns ==
    { <<"o","e","1","a","b"," ">>,
      <<"d","l","1","x","y">>,
      <<"O","E">>,
      <<"O","E","-","1","A","B">>,
      <<>>,
      <<"O","E","1","A","B","C","D","E","F","G","H">> }

Init ==
    /\ now = 0
    /\ file \in {"missing", "A"}
    /\ backup = "missing"
    /\ cachedDatabase = "null"
    /\ cacheLoadedAt = 0
    /\ lookupCache = <<>>
    /\ config = DEFAULT_CONFIG
    /\ qrzSession = [key |-> "null", expiry |-> 0]
    /\ hamqthSession = [id |-> "null", expiry |-> 0]
    /\ lk = IdleLookup
    /\ rq = IdleRequest
    /\ job = IdleJob
    /\ gate = IdleGate
    /\ batch = IdleBatch
    /\ sg = IdleSuggest
    /\ pf = IdleApply

\* Spec: every answer of the two services, every credential setting, caching
\* switched on and off, the database replaced; the clock stands still
ChainConfigUpdates ==
    ({"cacheEnabled"} \X BOOLEAN)
      \cup ({"qrz"} \X QrzCredentials) \cup ({"hamqth"} \X HamqthCredentials)

Next ==
    \/ \E raw \in RawCallsigns, skipCache \in BOOLEAN, localOnly \in BOOLEAN :
          Call(raw, skipCache, localOnly)
    \/ ReadFileDone
    \/ \E answer \in QrzLoginAnswers : QrzLoginDone(answer)
    \/ QrzQuerySent
    \/ \E answer \in QrzQueryAnswers : QrzQueryDone(answer)
    \/ \E answer \in HamqthLoginAnswers : HamqthLoginDone(answer)
    \/ \E answer \in HamqthQueryAnswers : HamqthQueryDone(answer)
    \/ Return
    \/ \E u \in ChainConfigUpdates : setConfig(u[1], u[2])
    \/ clearLookupCache
    \/ clearDatabaseCache
    \/ \E id \in RowSets : DatabasePromoted(id)

Spec == Init /\ [][Next]_vars

\* SpecCache: the clock runs in seconds and the cache lifetime is set; HamQTH
\* is asked anonymously and QRZ not at all
CacheConfigUpdates == ({"cacheEnabled"} \X BOOLEAN) \cup ({"cacheTTL"} \X CacheTTLs)

NextCache ==
    \/ \E raw \in RawCallsigns, skipCache \in BOOLEAN, localOnly \in BOOLEAN :
          Call(raw, skipCache, localOnly)
    \/ ReadFileDone
    \/ \E answer \in HamqthQueryAnswers : HamqthQueryDone(answer)
    \/ Return
    \/ Tick(1000, MaxSeconds * 1000)
    \/ \E u \in CacheConfigUpdates : setConfig(u[1], u[2])
    \/ clearLookupCache
    \/ \E id \in RowSets : DatabasePromoted(id)

SpecCache == Init /\ [][NextCache]_vars

\* SpecDb: every operation that is served from the database, the file present,
\* replaced or taken away, and the clock running past the snapshot's lifetime
SuffixArgs == { <<"a","b">>, <<"o","e","1","a","b">> }

DbCallsigns == { r \in RawCallsigns : MatchesBasicFormat(trim(toUpperCase(r))) }

NextDb ==
    \/ \E raw \in DbCallsigns, localOnly \in BOOLEAN :
          rq.pc = "idle" /\ Call(raw, FALSE, localOnly)
    \/ ReadFileDone
    \/ \E answer \in {"found", "notfound"} : HamqthQueryDone(answer)
    \/ Return
    \/ \E op \in Operations, arg \in SuffixArgs :
          lk.pc = "idle" /\ Request(op, arg, <<>>)
    \/ RequestReadFileDone
    \/ RequestReturn
    \/ Tick(CACHE_TTL - 1, CACHE_TTL)
    \/ now > 0 /\ Tick(1, CACHE_TTL)
    \/ clearDatabaseCache
    \/ \E id \in RowSets : DatabasePromoted(id)
    \/ DatabaseRemoved

SpecDb == Init /\ [][NextDb]_vars

\* SpecAvail: checkAvailability on every kind of suffix and district
SuffixInputs ==
    { <<"a","b">>,
      <<" ","c","d"," ">>,
      <<"x","k","v","c">>,
      <<"z","z">>,
      <<>>,
      <<"a">>,
      <<"a","b","c","d">>,
      <<"x","a","b","c","d">>,
      <<"a","1">>,
      <<"x">>,
      <<"x","a">> }

\* the district argument: undefined, or a number (0 and 10 are no districts
\* the tool hands out, but the function takes them)
MaxDistrictArg == 10

DistrictInputs == { <<>> } \cup { <<d>> : d \in 0..MaxDistrictArg }

NextAvail ==
    \/ \E s \in SuffixInputs, d \in DistrictInputs : Request("checkAvailability", s, d)
    \/ RequestReadFileDone
    \/ RequestReturn
    \/ clearDatabaseCache
    \/ \E id \in RowSets : DatabasePromoted(id)
    \/ DatabaseRemoved

SpecAvail == Init /\ [][NextAvail]_vars

\* SpecRebuild: runs of the rebuild job, one after the other
SpecRebuild == Init /\ [][NextRebuild]_vars

\* SpecSwap: the serving engine loads the database while the job runs
NextSwap ==
    \/ NextRebuild
    \/ Request("getDatabaseInfo", <<>>, <<>>)
    \/ RequestReadFileDone
    \/ RequestReturn
    \/ clearDatabaseCache

SpecSwap == Init /\ [][NextSwap]_vars

\* SpecGate: callers of makeRequest of either source, the clock in half intervals
GateStep == MIN_REQUEST_INTERVAL \div 2

NextGate ==
    \/ \E c \in Callers, src \in Sources : MakeRequest(c, src)
    \/ \E c \in Callers : TimerFired(c)
    \/ \E c \in Callers : RequestSettled(c)
    \/ Tick(GateStep, MaxSeconds * 1000)

SpecGate == Init /\ [][NextGate]_vars

\* SpecBatch: calls of lookupMultiple; every lookup settles (the requests of
\* lookupCallsign are bounded by their timeouts) and the event loop runs
\* every continuation that is ready
NextBatch ==
    \/ \E callsigns \in BatchInputs : lookupMultiple(callsigns)
    \/ \E idx \in 1..CONCURRENCY + 1, threw \in BOOLEAN : LookupSettled(idx, threw)
    \/ WaveEnds
    \/ BatchReturn

SpecBatch == Init /\ [][NextBatch]_vars /\ WF_vars(NextBatch)

\* SpecSession: lookups of a callsign the database does not list, QRZ
\* configured or not, the session expiring, refused and invalidated
NextSession ==
    \/ Call(<<"d","l","1","x","y">>, TRUE, FALSE)
    \/ ReadFileDone
    \/ \E answer \in {"key", "error"} : QrzLoginDone(answer)
    \/ QrzQuerySent
    \/ \E answer \in {"found", "notfound", "session"} : QrzQueryDone(answer)
    \/ HamqthQueryDone("notfound")
    \/ Return
    \/ \E credentials \in QrzCredentials : setConfig("qrz", credentials)
    \/ invalidateSession
    \/ Tick(QRZ_SESSION_MS - 1, QRZ_SESSION_MS)
    \/ now > 0 /\ Tick(1, QRZ_SESSION_MS)

SpecSession == Init /\ [][NextSession]_vars

\* SpecLoad: two callers of loadDatabase side by side (a lookup and
\* getDatabaseInfo), the file replaced and removed, the cache cleared, the
\* clock just before and at each multiple of the lifetime
LoadHorizon == 2 * CACHE_TTL

NextLoad ==
    \/ Call(<<"o","e","1","a","b"," ">>, TRUE, TRUE)
    \/ ReadFileDone
    \/ Return
    \/ Request("getDatabaseInfo", <<>>, <<>>)
    \/ RequestReadFileDone
    \/ RequestReturn
    \/ now % CACHE_TTL = 0 /\ Tick(CACHE_TTL - 1, LoadHorizon)
    \/ now % CACHE_TTL # 0 /\ Tick(1, LoadHorizon)
    \/ clearDatabaseCache
    \/ \E id \in RowSets : DatabasePromoted(id)
    \/ DatabaseRemoved

SpecLoad == Init /\ [][NextLoad]_vars

\* SpecSuggest: suggestions for names with and without a second part, with a
\* club initial, with characters that are dropped, and with no letter at all
SuggestNames ==
    { <<"a","n","n","a"," ","b","a","u","e","r">>,
      <<"X","a","v","e","r"," ","M","o","s","e","r">>,
      <<"h","a","n","s">>,
      <<"e","v","a","-","m","a","r","i","a"," "," ","a","b","e","l">>,
      <<"1"," ","2">> }

\* preferred_district: undefined, 0, or a district
PreferredDistricts == { <<>>, <<0>>, <<1>>, <<2>> }

MaxResults == 3

\* min_phonetic_score, in hundredths
MinScores == {0, 50, 80, 100}

NextSuggest ==
    \/ \E name \in SuggestNames, preferred_district \in PreferredDistricts,
          max_results \in 1..MaxResults, exclude_club \in BOOLEAN,
          min_phonetic_score \in MinScores :
          generateSuggestions(name, preferred_district, max_results, exclude_club,
                              min_phonetic_score)
    \/ SuggestStep
    \/ SuggestReturn
    \/ clearDatabaseCache
    \/ \E id \in RowSets : DatabasePromoted(id)
    \/ DatabaseRemoved

SpecSuggest == Init /\ [][NextSuggest]_vars

\* SpecRandom: random suggestions, for every count up to MaxCount
MaxCount == 2

\* the database file is replaced, and the snapshot dropped, during the first
\* attempts only
RandomChanges == 2

NextRandomStep ==
    \/ \E suffix \in RandomSuffixes(sg.length, sg.exclude_club) : RandomAttempt(suffix)
    \/ RandomDone
    \/ SuggestReturn

NextRandom ==
    \/ \E count \in 0..MaxCount, district \in {<<>>, <<1>>}, excludeClub \in BOOLEAN :
          generateRandomSuggestions(count, district, 2, excludeClub)
    \/ NextRandomStep
    \/ sg.attempts < RandomChanges /\ clearDatabaseCache
    \/ sg.attempts < RandomChanges /\ \E id \in RowSets : DatabasePromoted(id)

SpecRandom == Init /\ [][NextRandom]_vars /\ WF_vars(NextRandomStep)

\* SpecLists: deduplicateEntries and sortEntries on every list of at most
\* MaxEntries records of the pool
NextLists ==
    \/ \E entries \in EntryLists(MaxEntries) : Deduplicate(entries)
    \/ DeduplicateAgain
    \/ \E entries \in EntryLists(MaxEntries) : Sort(entries)
    \/ ApplyReturn

SpecLists == Init /\ [][NextLists]_vars

\* SpecHidden: rows with and without the marker in the name, normalized two
\* at a time, and the availability of a suffix a hidden holder has
HiddenNames == { <<"*","-","*","-","*">>,
      <<"M","U","S","T","E","R"," ","*","-","*","-","*">>,
      <<"M","U","S","T","E","R"," ","H","A","N","S">> }

HiddenLocations == { <<"*","-","*","-","*">>,
      <<"1","0","1","0"," ","W","i","e","n">>,
      <<>> }

HiddenAddresses == { <<"*","-","*","-","*">>,
      <<"R","i","n","g"," ","1">> }

HiddenCallsigns == { <<"O","E","3","A","B">>, <<"O","E","-","3">> }

HiddenClasses == { <<"1">>, <<"3">> }

NextHidden ==
    \/ \E c \in HiddenCallsigns, n1, n2 \in HiddenNames, l1, l2 \in HiddenLocations,
          a1, a2 \in HiddenAddresses, k \in HiddenClasses :
          NormalizePair(c, n1, l1, a1, n2, l2, a2, k)
    \/ ApplyReturn
    \/ \E district \in {<<>>, <<3>>} : Request("checkSuffixAvailability", <<"a","b">>, district)
    \/ \E district \in {<<>>, <<3>>} : Request("checkAvailability", <<"a","b">>, district)
    \/ RequestReadFileDone
    \/ RequestReturn

SpecHidden == Init /\ [][NextHidden]_vars

\* SpecValidate: databases with any set of districts, and the databases the
\* pipeline assembles from rows with good, bad and repeated callsigns
MaxRows == 3

PipelineCallsigns ==
    { <<"O","E","1","A","B">>,
      <<"O","E","9","X","Y","Z">>,
      <<"O","E","0","A">>,
      <<"o","e","1","a","b">>,
      <<"O","E","1">>,
      <<"O","E","1","2","A">>,
      <<"O","E","5","A","B","C","D","E">>,
      <<" ","O","E","3","A","B">> }

ExtraKinds == {"none", "second", "foreign"}

NextValidate ==
    \/ \E districts \in SUBSET (0..9), extra \in ExtraKinds : Validate(districts, extra)
    \/ \E callsigns \in SeqsUpTo(PipelineCallsigns, MaxRows) : Assemble(callsigns)
    \/ ApplyReturn

SpecValidate == Init /\ [][NextValidate]_vars

\* SpecExtract: lines of the text of the PDF, with the columns one blank or
\* three apart, with and without a further column in front of the address,
\* and with the class in its own column, one blank behind the address or
\* missing
ColumnGaps == { <<" ">>, <<" "," "," ">> }

ExtraColumns == { <<>>, <<" "," "," ","T","o","p"," ","2">> }

ClassEnds == { <<>>, <<" ","3">>, <<" "," "," ","3">>, <<" ","5">>, <<" "," "," ","4">> }

RecordLines ==
    { <<"O","E","1","A","B">> \o g1 \o <<"M","U","S","T","E","R"," ","H","A","N","S">> \o g2 \o <<"1","0","1","0"," ","W","i","e","n">> \o x \o g3 \o <<"R","i","n","g"," ","1">> \o k :
        g1 \in ColumnGaps, g2 \in ColumnGaps, g3 \in ColumnGaps,
        x \in ExtraColumns, k \in ClassEnds }

OtherLines ==
    { <<"O","E","3","A","B"," ","*","-","*","-","*"," ","*","-","*","-","*"," ","*","-","*","-","*"," ","1">>,
      <<"O","E","3","A","B"," "," "," ","*","-","*","-","*"," "," "," ","*","-","*","-","*"," "," "," ","*","-","*","-","*"," "," "," ","5">>,
      <<"O","E","3","A","B"," ","*","-","*","-","*">>,
      <<"O","E","3","A","B"," "," "," ","M","U","S","T","E","R"," ","H","A","N","S"," "," "," ","*","-","*","-","*"," "," "," ","R","i","n","g"," ","7">>,
      <<"O","E","9","X","Y","Z"," "," "," ","C","L","U","B"," "," "," ","6","9","0","0"," ","B","r","e","g","e","n","z"," "," "," ","A","m"," ","S","e","e"," "," "," ","H","a","u","s"," ","2"," "," "," ","4">>,
      <<"O","E","1","A","B"," ","M","U","S","T","E","R"," ","H","A","N","S"," ","3">>,
      <<"O","E","1","A","B","\t","M","U","S","T","E","R"," ","H","A","N","S","\t","2">>,
      <<"O","E","1","A","B"," ","M","U","S","T","E","R"," ","H","A","N","S">>,
      <<"R","u","f","z","e","i","c","h","e","n"," ","N","a","m","e">>,
      <<"S","e","i","t","e"," ","1"," ","v","o","n"," ","9">>,
      <<"O","E","1","A","B","C","D","E"," ","X"," ","1">>,
      <<"O","E","1","A","B"," ","M","U","S","T","E","R"," ","S","e","i","t","e"," ","2"," ","v","o","n"," ","3"," ","1">>,
      <<" "," ","O","E","6","A"," "," ","H","U","B","E","R"," "," ","4"," "," ">>,
      <<"O","E","1","A","B"," ","2">>,
      <<"O","E","1","A","B">> }

NextExtract ==
    \/ \E line \in RecordLines \cup OtherLines : Extract(line)
    \/ ApplyReturn

SpecExtract == Init /\ [][NextExtract]_vars

\* SpecNames: names of up to MaxTokens tokens: surnames, given names, a
\* hyphenated one, a preposition and titles
MaxTokens == 3

NameTokens ==
    { <<"M","U","S","T","E","R">>,
      <<"H","A","N","S">>,
      <<"P","E","T","E","R">>,
      <<"H","A","N","S","-","P","E","T","E","R">>,
      <<"V","O","N">>,
      <<"D","R",".">>,
      <<"M","a","g">> }

NextNames ==
    \/ \E tokens \in SeqsUpTo(NameTokens, MaxTokens) : NormalizeName(tokens)
    \/ ApplyReturn

SpecNames == Init /\ [][NextNames]_vars

\* SpecNegative: a callsign the database does not hold, both services failing
\* or answering, QRZ configured or not, the clock running and the lifetime
\* of the lookup cache set
NegativeCallsigns == { <<"o","e","9","z","z"," ">> }

NegativeConfigUpdates ==
    ({"cacheEnabled"} \X BOOLEAN) \cup ({"cacheTTL"} \X CacheTTLs)
      \cup ({"qrz"} \X { c \in QrzCredentials : c = <<>> \/ isQRZConfigured(c) })

NextNegative ==
    \/ \E raw \in NegativeCallsigns, skipCache \in BOOLEAN : Call(raw, skipCache, FALSE)
    \/ ReadFileDone
    \/ \E answer \in QrzLoginAnswers : QrzLoginDone(answer)
    \/ QrzQuerySent
    \/ \E answer \in QrzQueryAnswers : QrzQueryDone(answer)
    \/ \E answer \in HamqthQueryAnswers : HamqthQueryDone(answer)
    \/ Return
    \/ Tick(1000, MaxSeconds * 1000)
    \/ \E u \in NegativeConfigUpdates : setConfig(u[1], u[2])

SpecNegative == Init /\ [][NextNegative]_vars

\* ------------------------------------------------------------------------
\* Properties
\* ------------------------------------------------------------------------
QrzPcs == {"qrzLogin", "qrzGate", "qrzQuery"}

HamqthPcs == {"hamqthLogin", "hamqthQuery"}

SourceRank(src) == CASE src = "local" -> 1 [] src = "qrz" -> 2 [] src = "hamqth" -> 3

OePrefix == <<"O", "E">>

\* a QRZ username and a QRZ password are both configured
BothQrzCredentials ==
    /\ config.qrz # <<>>
    /\ config.qrz[1].username # ""
    /\ config.qrz[1].password # ""

\* 3 to 10 characters, letters and digits only
WellFormed(s) ==
    /\ Len(s) \in 3..10
    /\ \A i \in DOMAIN s : s[i] \in UpperLetters \cup Digits

\* the step in which lookupCallsign returns (or throws)
LookupEnds == lk.pc # "done" /\ lk'.pc = "done"

C1Inv ==
    /\ lk.trace # <<>> => lk.trace[1].src = "local"
    /\ \A i, j \in DOMAIN lk.trace :
          i < j => SourceRank(lk.trace[i].src) < SourceRank(lk.trace[j].src)
    /\ \A i \in DOMAIN lk.trace :
          lk.trace[i].exists => i = Len(lk.trace) /\ lk.pc = "done"
    /\ lk.pc \in QrzPcs \cup HamqthPcs => lk.trace # <<>> /\ ~lk.localOnly
    /\ \A i \in DOMAIN lk.trace :
          lk.trace[i].src \in {"qrz", "hamqth"} => ~lk.localOnly

C1Step ==
    /\ lk'.pc \in QrzPcs /\ lk.pc \notin QrzPcs => BothQrzCredentials
    /\ lk'.pc \in HamqthPcs /\ lk.pc \notin HamqthPcs /\ BothQrzCredentials
          => lk.pc \in QrzPcs
    /\ LookupEnds /\ lk'.trace # <<>> /\ ~lk'.result.exists /\ ~lk'.localOnly
          /\ lk'.error = ""
          => lk'.trace[Len(lk'.trace)].src = "hamqth"

\* C1: a well-formed, uncached callsign is looked up in the local database
\* first, then in QRZ (only with a QRZ username and password configured and
\* localOnly not set), then in HamQTH (only with localOnly not set); no source
\* is asked after one has returned exists=true, so a local hit never causes a
\* QRZ or HamQTH request.
C1_SourceOrder == [][C1Inv' /\ C1Step]_vars

C1_Witness ==
    /\ lk.pc = "done"
    /\ Len(lk.trace) = 3
    /\ lk.trace[2].src = "qrz"
    /\ lk.trace[3].src = "hamqth"
    /\ lk.result.source = "hamqth"

\* the entry the cache holds for callsign cs, its age within the lifetime
C2Fresh(cs) ==
    /\ config.cacheEnabled
    /\ cs \in DOMAIN lookupCache
    /\ now - lookupCache[cs].timestamp <= config.cacheTTL * 1000

C2Stale(cs) ==
    /\ config.cacheEnabled
    /\ cs \in DOMAIN lookupCache
    /\ now - lookupCache[cs].timestamp > config.cacheTTL * 1000

\* the step in which lookupCallsign is called with a well-formed callsign
C2Called ==
    /\ lk.pc = "idle" /\ lk'.pc # "idle"
    /\ WellFormed(lk'.cs)

\* the call is answered from the cache: no resolution, the entry untouched
C2Served ==
    /\ lk'.pc = "done"
    /\ lk'.trace = <<>>
    /\ lk'.error = ""
    /\ lk'.result = lookupCache[lk'.cs].result
    /\ lookupCache' = lookupCache
    /\ UNCHANGED << cachedDatabase, cacheLoadedAt >>

\* the call evicts the entry and resolves afresh: it has asked the local
\* database, or waits for the database file
C2Resolved ==
    /\ lk'.pc = "readFile" \/ lk'.trace # <<>>
    /\ \/ lk'.cs \notin DOMAIN lookupCache'
       \/ lookupCache'[lk'.cs].timestamp = now

\* C2 (as stated): with caching enabled, a call within cacheTTL seconds of the
\* write of the entry is answered from the cache without a second resolution
\* and without extending the entry's lifetime; the first call after the
\* lifetime evicts the entry and resolves afresh.
C2_AnyCall ==
    [][ C2Called =>
          /\ C2Fresh(lk'.cs) => C2Served
          /\ C2Stale(lk'.cs) => C2Resolved ]_vars

\* a call with skipCache set resolves afresh and leaves the entry in place
C2Bypassed ==
    /\ lk'.pc = "readFile" \/ lk'.trace # <<>>
    /\ ~lk'.cacheRead
    /\ lk'.cs \in DOMAIN lookupCache => lk'.cs \in DOMAIN lookupCache'

\* C2 (amended): the same, for calls that do not set skipCache; a call that
\* sets it neither reads nor evicts the entry and resolves afresh.
C2_CacheWindow ==
    [][ /\ C2Called /\ ~lk'.skipCache =>
             /\ C2Fresh(lk'.cs) => C2Served
             /\ C2Stale(lk'.cs) => C2Resolved
        /\ C2Called /\ lk'.skipCache => C2Bypassed ]_vars

\* a second call at the very end of the lifetime has been answered from the cache
C2_Witness ==
    /\ lk.pc = "done"
    /\ lk.cacheRead
    /\ lk.trace = <<>>
    /\ lk.cs \in DOMAIN lookupCache
    /\ now - lookupCache[lk.cs].timestamp = config.cacheTTL * 1000
    /\ now > 0
    /\ lk.result = lookupCache[lk.cs].result

\* the cache holds the result returned, under the normalized callsign
C3Held ==
    /\ lk'.cs \in DOMAIN lookupCache'
    /\ lookupCache'[lk'.cs].result = lk'.result

\* nothing was written to the cache
C3NothingWritten ==
    \A k \in DOMAIN lookupCache' :
       k \in DOMAIN lookupCache /\ lookupCache'[k] = lookupCache[k]

C3Returns == LookupEnds /\ lk'.error = "" /\ config.cacheEnabled

\* the rejection of a malformed callsign, and the miss of the local database
\* returned to a localOnly call
C3Rejected == ~WellFormed(lk'.cs)

C3LocalOnlyMiss == lk'.localOnly /\ lk'.trace # <<>> /\ ~lk'.result.exists

\* C3 (as stated): whenever lookupCallsign returns with caching enabled, the
\* cache holds the returned result under the normalized callsign.
C3_EveryResultCached == [][C3Returns => C3Held]_vars

\* C3 (amended): with caching enabled, the result of a local hit, of an
\* external hit and of the exhausted chain is in the cache when the call
\* returns; the rejection of a malformed callsign and the local miss of a
\* localOnly call are returned without being written to the cache.
C3_ChainResultsCached ==
    [][ C3Returns =>
          /\ ~C3Rejected /\ ~C3LocalOnlyMiss => C3Held
          /\ C3Rejected \/ C3LocalOnlyMiss => C3NothingWritten ]_vars

\* the exhausted chain has returned not-found and the cache holds it
C3_Witness ==
    /\ lk.pc = "done"
    /\ config.cacheEnabled
    /\ lk.trace # <<>>
    /\ lk.trace[Len(lk.trace)].src = "hamqth"
    /\ ~lk.result.exists
    /\ lk.cs \in DOMAIN lookupCache
    /\ lookupCache[lk.cs].result = lk.result

\* C4: a query whose trimmed, uppercased form is not 3 to 10 letters and
\* digits is answered at once with exists=false, source 'not_found' and an
\* explanation, without a cache read, a database load or an external request,
\* and without an exception.
C4_InvalidRejected ==
    [][ lk.pc = "idle" /\ lk'.pc # "idle" /\ ~WellFormed(trim(toUpperCase(lk'.raw)))
          => /\ lk'.pc = "done"
             /\ lk'.error = ""
             /\ ~lk'.result.exists
             /\ lk'.result.source = "not_found"
             /\ lk'.result.warning # NoWarning
             /\ ~lk'.cacheRead
             /\ lk'.trace = <<>>
             /\ UNCHANGED << lookupCache, cachedDatabase, cacheLoadedAt,
                             qrzSession, hamqthSession >> ]_vars

C4_Witness ==
    /\ lk.pc = "done"
    /\ lk.raw = <<"O", "E", "-", "1", "A", "B">>
    /\ lk.result.warning = "Invalid callsign format"

C6Inv ==
    /\ \A i \in DOMAIN lk.trace :
          lk.trace[i].failed => ~lk.trace[i].exists /\ lk.trace[i].warned
    /\ (\E i \in DOMAIN lk.trace : lk.trace[i].src \in {"qrz", "hamqth"})
          => lk.error = ""

C6Step ==
    lk.pc \in QrzPcs /\ lk'.pc \notin QrzPcs /\ ~lk'.trace[Len(lk'.trace)].exists
       => lk'.pc \in HamqthPcs /\ lk'.error = ""

\* C6: a failed request of an external source (network error, non-200 status,
\* timeout, failed authentication) comes back from lookupQRZ and lookupHamQTH
\* as a miss with a warning and no exception reaches the caller; after QRZ
\* has failed or missed, HamQTH is asked.
C6_FailuresAbsorbed == [][C6Inv' /\ C6Step]_vars

C6_Witness ==
    /\ lk.pc = "done"
    /\ Len(lk.trace) = 3
    /\ lk.trace[2].src = "qrz" /\ lk.trace[2].failed /\ lk.trace[2].warned
    /\ lk.trace[3].src = "hamqth" /\ lk.trace[3].failed /\ lk.trace[3].warned
    /\ lk.error = ""

\* the read of loadDatabase ends and finds no file
C7LookupReadFails == lk.pc = "readFile" /\ lk'.pc # "readFile" /\ file = "missing"

C7RequestReadFails == rq.pc = "readFile" /\ rq'.pc # "readFile" /\ file = "missing"

\* without an unexpired snapshot the operation goes to the file
C7NoSnapshot == cachedDatabase = "null" \/ now - cacheLoadedAt >= CACHE_TTL

C7LookupStarts ==
    /\ lk.pc = "idle" /\ lk'.pc # "idle"
    /\ WellFormed(lk'.cs)
    /\ ~(config.cacheEnabled /\ lk'.cs \in DOMAIN lookupCache
           /\ now - lookupCache[lk'.cs].timestamp <= config.cacheTTL * 1000)

C7RequestStarts ==
    /\ rq.pc = "idle" /\ rq'.pc # "idle"
    /\ rq'.op \in {"lookupLocal", "checkSuffixAvailability", "getDatabaseInfo",
                   "getDatabaseStats"}

\* C7: with the database file missing and no unexpired snapshot, lookupLocal,
\* lookupCallsign (well-formed, uncached callsign), checkSuffixAvailability,
\* getDatabaseInfo and getDatabaseStats fail with the error that names the
\* file and the rebuild command, and return no result; lookupCallsign then
\* asks no external source and writes nothing to the lookup cache.
C7_MissingFileFails ==
    [][ /\ C7LookupStarts /\ C7NoSnapshot => lk'.pc = "readFile"
        /\ C7RequestStarts /\ C7NoSnapshot => rq'.pc = "readFile"
        /\ C7LookupReadFails
             => /\ lk'.pc = "done"
                /\ lk'.error = DbNotFoundError
                /\ lk'.result = NoResult
                /\ lk'.trace = <<>>
                /\ C3NothingWritten
                /\ UNCHANGED << qrzSession, hamqthSession >>
        /\ C7RequestReadFails
             => /\ rq'.pc = "done"
                /\ rq'.error = DbNotFoundError
                /\ rq'.found = NoResult
                /\ rq'.avail = IdleRequest.avail
                /\ rq'.info = NoInfo
                /\ rq'.stats = NoStats ]_vars

\* the snapshot has expired, the file is gone, and the lookup has failed
C7_Witness ==
    /\ lk.pc = "done"
    /\ lk.error = DbNotFoundError
    /\ ~lk.localOnly
    /\ file = "missing"
    /\ cachedDatabase # "null"
    /\ now - cacheLoadedAt >= CACHE_TTL

\* the districts asked for, and the callsign tested for district d
C8Requested(r) ==
    IF r.district = <<>> THEN 1..9 ELSE {r.district[1]}

C8Candidate(d, suffix) == OePrefix \o NumToStr(d) \o suffix

C8InDatabase(db, callsign) ==
    \E i \in DOMAIN db.entries : db.entries[i].callsign = callsign

C8Range(s) == { s[i] : i \in DOMAIN s }

C8NoRepeats(s) == \A i, j \in DOMAIN s : i # j => s[i] # s[j]

C8ValidSuffix(s) ==
    /\ Len(s) >= 2
    /\ \A i \in DOMAIN s : s[i] \in UpperLetters
    /\ IF s[1] = "X" THEN Len(s) <= 4 ELSE Len(s) <= 3

\* checkAvailability has answered from the database
C8Answered ==
    /\ rq.pc # "done" /\ rq'.pc = "done"
    /\ rq'.op = "checkAvailability"
    /\ rq'.error = ""
    /\ C8ValidSuffix(trim(toUpperCase(rq'.arg)))

\* C8: for a valid suffix the requested districts (the one given, or 1..9) are
\* split into available_districts and taken_districts: disjoint, every
\* requested district exactly once, d taken exactly when the database has
\* 'OE'+d+suffix, one taken_by entry per taken district with that callsign,
\* and available exactly when available_districts is not empty.
C8_Partition ==
    [][ C8Answered =>
          LET a == rq'.avail
              suffix == trim(toUpperCase(rq'.arg))
              db == Database(cachedDatabase')
          IN /\ C8Range(a.available_districts) \cap C8Range(a.taken_districts) = {}
             /\ C8Range(a.available_districts) \cup C8Range(a.taken_districts)
                   = C8Requested(rq')
             /\ C8NoRepeats(a.available_districts \o a.taken_districts)
             /\ \A d \in C8Requested(rq') :
                   d \in C8Range(a.taken_districts)
                      <=> C8InDatabase(db, C8Candidate(d, suffix))
             /\ Len(a.taken_by) = Len(a.taken_districts)
             /\ \A i \in DOMAIN a.taken_by :
                   /\ a.taken_by[i].district = a.taken_districts[i]
                   /\ a.taken_by[i].callsign
                         = C8Candidate(a.taken_districts[i], suffix)
             /\ a.available <=> a.available_districts # <<>> ]_vars

\* all nine districts asked, some taken and some free
C8_Witness ==
    /\ rq.pc = "done"
    /\ rq.op = "checkAvailability"
    /\ rq.district = <<>>
    /\ Len(rq.avail.taken_districts) >= 2
    /\ Len(rq.avail.available_districts) >= 2
    /\ rq.avail.available

\* C9: a suffix that is, trimmed and uppercased, empty, not all letters,
\* shorter than 2, longer than 3 (personal) or longer than 4 (club, starting
\* with 'X') gets available=false and three empty lists, and the database is
\* neither loaded nor queried.
C9_InvalidSuffix ==
    [][ /\ rq.pc = "idle" /\ rq'.pc # "idle"
        /\ rq'.op = "checkAvailability"
        /\ ~C8ValidSuffix(trim(toUpperCase(rq'.arg)))
        => /\ rq'.pc = "done"
           /\ rq'.error = ""
           /\ ~rq'.avail.available
           /\ rq'.avail.available_districts = <<>>
           /\ rq'.avail.taken_districts = <<>>
           /\ rq'.avail.taken_by = <<>>
           /\ ~rq'.loaded
           /\ UNCHANGED << cachedDatabase, cacheLoadedAt >> ]_vars

\* a personal suffix of four letters has been refused
C9_Witness ==
    /\ rq.pc = "done"
    /\ rq.op = "checkAvailability"
    /\ rq.arg = <<"a", "b", "c", "d">>
    /\ ~rq.loaded
    /\ ~rq.avail.available

\* the errors validateDatabase reports for the database built from the rows
C10Errors(rows) == Len(validateDatabase(BuildDatabase(rows)).errors)

C10Warnings(rows) == Len(validateDatabase(BuildDatabase(rows)).warnings)

\* C10: the job writes the newly built database over the database file only
\* when validateDatabase reported no error for it; with one error or more the
\* write is not begun; warnings do not keep it from being written.
C10_WriteOnlyIfValid ==
    [][ /\ job'.pc = "saving" /\ job.pc # "saving" => C10Errors(job'.db) = 0
        /\ job.pc = "parse" /\ job'.db # "none"
             => IF C10Errors(job'.db) > 0 THEN job'.pc = "restore" /\ file' = file
                ELSE job'.pc = "save"
        /\ file' # file /\ job.pc \notin {"save", "saving"}
             => job.pc = "restore" /\ file' \in {backup, "partial"}
        /\ job'.saved => job'.db # "none" /\ C10Errors(job'.db) = 0 ]_vars

\* a database with warnings and no error is in place
C10_Witness ==
    /\ job.pc = "exited"
    /\ job.status = 0
    /\ job.saved
    /\ file = job.db
    /\ C10Warnings(job.db) > 0
    /\ C10Errors(job.db) = 0

\* C11: when a run that began with a database file in place exits after a
\* failure (status 1), the database file holds what it held when the run began.
C11_RestoredOnFailure ==
    job.pc = "exited" /\ job.status = 1 /\ job.startFile # "missing"
       => file = job.startFile

\* C12: a loadDatabase whose read of the file ends while the job is writing
\* the new database gets the whole old database or the whole new one.
C12_AtomicSwap ==
    [][ rq.pc = "readFile" /\ rq'.pc # "readFile" /\ job.pc = "saving"
          /\ job.startFile \in RowSets
          => /\ rq'.error = ""
             /\ cachedDatabase' \in {job.startFile, job.db} ]_vars

\* C13: for each source, any two requests issued through its makeRequest
\* are started at least 1000 ms apart.
C13_MinimumInterval ==
    \A s \in Sources :
       \A i, j \in DOMAIN gate.started[s] :
          i < j => gate.started[s][j] - gate.started[s][i] >= 1000

C14Range(s) == { s[i] : i \in DOMAIN s }

C14Inv ==
    /\ Cardinality(DOMAIN batch.wave \ batch.settled) <= 5
    /\ Len(batch.wave) <= 5
    /\ batch.pc = "running" => batch.wave # <<>>
    /\ batch.pc \in {"running", "done"}
          => /\ batch.finished + Len(batch.wave) + Len(batch.queue) = Len(batch.input)
             /\ batch.wave = SubSeq(batch.input, batch.finished + 1,
                                    batch.finished + Len(batch.wave))
             /\ batch.queue = SubSeq(batch.input, batch.finished + Len(batch.wave) + 1,
                                     Len(batch.input))
    /\ batch.pc = "done"
          => DOMAIN batch.results = { toUpperCase(cs) : cs \in C14Range(batch.input) }

C14Step ==
    batch.pc = "running" /\ batch'.pc = "running" /\ batch'.finished # batch.finished
       => batch.settled = DOMAIN batch.wave

\* C14: lookupMultiple has at most 5 lookups in flight; the callsigns are
\* taken in input order in waves of at most 5, a wave starting only when all
\* lookups of the one before have completed; the call ends for every list;
\* the map returned has one entry for each distinct uppercased callsign.
C14_BoundedWaves ==
    /\ []C14Inv
    /\ [][C14Step]_vars
    /\ (batch.pc = "running" ~> batch.pc \in {"done", "failed"})

\* a list of six with a repeated callsign has been served in two waves
C14_Witness ==
    /\ batch.pc = "done"
    /\ Len(batch.input) = 6
    /\ batch.finished = 6
    /\ Cardinality(DOMAIN batch.results) = 2

\* a key from a login less than 23 hours ago that is still the stored one
C15Valid(session) ==
    /\ session.key # "null"
    /\ now < session.expiry
    /\ session.expiry - now <= 23 * 60 * 60 * 1000

C15NoLoginWhileHeld ==
    lk'.pc = "qrzLogin" /\ lk.pc # "qrzLogin"
       => ~(qrzSession.key # "null" /\ now < qrzSession.expiry)

C15Discarded ==
    QrzQueryDone("session") \/ invalidateSession => qrzSession'.key = "null"

\* C15 (as stated): the key a callsign query carries is, when the query is
\* sent, from a login less than 23 hours ago and not invalidated since; no
\* login is made while such a key is held; a session-invalid answer and
\* invalidateSession discard the stored key.
C15_KeyValidWhenSent ==
    [][ /\ lk.pc = "qrzGate" /\ lk'.pc = "qrzQuery"
             => C15Valid(lk'.session) /\ qrzSession = lk'.session
        /\ C15NoLoginWhileHeld
        /\ C15Discarded ]_vars

\* C15 (amended): the key a callsign query carries was, when getSession
\* returned it, the stored key, from a login less than 23 hours before; the
\* query is sent with that key once makeRequest lets it through; the rest as
\* stated.
C15_KeyValidWhenTaken ==
    [][ /\ lk'.pc = "qrzGate" /\ lk.pc # "qrzGate"
             => C15Valid(lk'.session) /\ qrzSession' = lk'.session
        /\ lk.pc = "qrzGate" /\ lk'.pc = "qrzQuery" => lk'.session = lk.session
        /\ lk'.pc = "qrzQuery" => lk.pc \in {"qrzGate", "qrzQuery"}
        /\ C15NoLoginWhileHeld
        /\ C15Discarded ]_vars

\* a query is out with the key of a login that followed the loss of the first
C15_Witness ==
    /\ lk.pc = "qrzQuery"
    /\ lk.session.key # "null"
    /\ lk.session.expiry > 23 * 60 * 60 * 1000
    /\ qrzSession = lk.session

\* the snapshot of the last successful load is less than 300000 ms old
C16Fresh == cachedDatabase # "null" /\ now - cacheLoadedAt < 300000

C16RequestCalls == rq.pc = "idle" /\ rq'.pc # "idle"

C16LookupCalls == lk.pc = "idle" /\ lk'.pc # "idle"

C16Replaced == cachedDatabase' # cachedDatabase \/ cacheLoadedAt' # cacheLoadedAt

\* C16: a call of loadDatabase made less than 300000 ms after the load time
\* of the snapshot gets that snapshot and reads no file, whatever the file
\* holds by then; any other call reads the file; snapshot and load time
\* change only together, to what a read found and the time its call began,
\* or to nothing and 0.
C16_SharedSnapshot ==
    [][ /\ C16RequestCalls /\ C16Fresh
             => /\ rq'.pc = "done" /\ rq'.error = ""
                /\ rq'.info = getDatabaseInfoIn(Database(cachedDatabase))
        /\ C16RequestCalls /\ ~C16Fresh => rq'.pc = "readFile"
        /\ C16LookupCalls /\ C16Fresh
             => /\ lk'.pc = "done" /\ lk'.error = ""
                /\ lk'.trace = << Consulted("local", "read",
                                     lookupLocalIn(Database(cachedDatabase), lk'.cs)) >>
        /\ C16LookupCalls /\ ~C16Fresh => lk'.pc = "readFile"
        /\ C16Replaced
             => \/ /\ cachedDatabase' = file /\ file \in RowSets
                   /\ \/ rq.pc = "readFile" /\ cacheLoadedAt' = rq.loadNow
                      \/ lk.pc = "readFile" /\ cacheLoadedAt' = lk.loadNow
                \/ cachedDatabase' = "null" /\ cacheLoadedAt' = 0 ]_vars

\* a call was answered from the snapshot after the file had been replaced
C16_Witness ==
    /\ rq.pc = "done" /\ rq.error = ""
    /\ cachedDatabase \in RowSets /\ file \in RowSets /\ file # cachedDatabase
    /\ rq.info = getDatabaseInfoIn(Database(cachedDatabase))
    /\ rq.info # getDatabaseInfoIn(Database(file))
    /\ now - cacheLoadedAt < 300000 /\ now > rq.loadNow
    /\ cacheLoadedAt > 0

C17Returned == sg.op = "generateSuggestions" /\ sg.pc = "done" /\ sg.error = ""

\* C17: with exclude_club set, generateSuggestions returns no suggestion
\* whose suffix starts with X.
C17_NoClubSuffix ==
    C17Returned /\ sg.exclude_club
       => \A k \in 1..Len(sg.result) : sg.result[k].suffix[1] # "X"

\* suggestions came back for a name that begins with X
C17_Witness ==
    /\ C17Returned /\ sg.exclude_club
    /\ UpperChar(sg.name[1]) = "X"
    /\ Len(sg.result) > 0

C18Below(k) == calculatePhoneticScore(sg.candidates[k].suffix) < sg.min_phonetic_score

C18Checked(k) == \E c \in 1..Len(sg.checked) : sg.checked[c] = sg.candidates[k].suffix

\* C18: in generateSuggestions no availability check is made for a candidate
\* whose phonetic score is below min_phonetic_score, and every suggestion
\* kept or returned has a phonetic score of at least the minimum and at
\* least one available district.
C18_ScoreGate ==
    sg.op = "generateSuggestions"
       => /\ \A k \in 1..Len(sg.candidates) : C18Below(k) => ~C18Checked(k)
          /\ \A k \in 1..Len(sg.scored) :
                /\ sg.scored[k].phonetic_score >= sg.min_phonetic_score
                /\ sg.scored[k].available_districts # <<>>
          /\ \A k \in 1..Len(sg.result) :
                /\ sg.result[k].phonetic_score >= sg.min_phonetic_score
                /\ sg.result[k].available_districts # <<>>

\* a call has returned suggestions after passing over a candidate below the
\* minimum and dropping a checked one that is taken
C18_Witness ==
    /\ C17Returned
    /\ Len(sg.result) > 0
    /\ \E k \in 1..Len(sg.candidates) : C18Below(k)
    /\ \E k \in 1..Len(sg.candidates) :
          /\ C18Checked(k)
          /\ \A s \in 1..Len(sg.scored) : sg.scored[s].suffix # sg.candidates[k].suffix

C19Preferred(a) ==
    /\ sg.district # <<>> /\ sg.district[1] # 0
    /\ \E d \in 1..Len(a.available_districts) : a.available_districts[d] = sg.district[1]

\* a ranks at least as high as b: not behind it by group, nor by score
\* within the group (scores in thousandths: 0.6 * phonetic + 0.4 * cw)
C19AtLeast(a, b) ==
    /\ C19Preferred(b) => C19Preferred(a)
    /\ C19Preferred(a) = C19Preferred(b)
          => 6 * a.phonetic_score + 4 * a.cw_score >= 6 * b.phonetic_score + 4 * b.cw_score

C19InResult(a) == \E k \in 1..Len(sg.result) : sg.result[k] = a

\* C19: the list generateSuggestions returns has at most max_results
\* elements, all of them accepted candidates, each ranking at least as high
\* as those after it and as every accepted candidate left out.
C19_RankedTop ==
    C17Returned
       => /\ Len(sg.result) <= sg.max_results
          /\ Len(sg.result) = Min(sg.max_results, Len(sg.scored))
          /\ \A k \in 1..Len(sg.result) :
                \E s \in 1..Len(sg.scored) : sg.scored[s] = sg.result[k]
          /\ \A i, j \in 1..Len(sg.result) :
                i < j => C19AtLeast(sg.result[i], sg.result[j]) /\ sg.result[i] # sg.result[j]
          /\ \A s \in 1..Len(sg.scored) :
                ~C19InResult(sg.scored[s])
                   => \A k \in 1..Len(sg.result) : C19AtLeast(sg.result[k], sg.scored[s])

\* more candidates were accepted than returned, and the best of them was not
\* the first one accepted
C19_Witness ==
    /\ C17Returned
    /\ Len(sg.scored) > sg.max_results
    /\ Len(sg.result) >= 2
    /\ sg.result[1] # sg.scored[1]
    /\ 6 * sg.result[1].phonetic_score + 4 * sg.result[1].cw_score
          > 6 * sg.result[2].phonetic_score + 4 * sg.result[2].cw_score
    /\ ~C19InResult(sg.scored[1])

C20Random == sg.op = "generateRandomSuggestions"

C20Inv ==
    C20Random
       => /\ sg.attempts <= 20 * sg.count
          /\ Len(sg.scored) <= sg.count
          /\ \A i, j \in 1..Len(sg.scored) :
                i # j => sg.scored[i].suffix # sg.scored[j].suffix
          /\ \A k \in 1..Len(sg.scored) :
                /\ sg.scored[k].available_districts # <<>>
                /\ sg.exclude_club => ~includes(sg.scored[k].suffix, <<"X">>)
          /\ sg.pc = "done" /\ sg.error = "" => sg.result = sg.scored

C20Step ==
    /\ C20Random /\ sg.pc = "drawing" /\ sg'.attempts # sg.attempts
          => sg'.attempts = sg.attempts + 1
    /\ C20Random /\ sg.pc = "drawing" /\ sg'.pc = "drawing" /\ sg' # sg
          => sg'.attempts = sg.attempts + 1
    /\ C20Random /\ sg.pc = "drawing" /\ sg'.pc = "done" /\ sg'.error = ""
          => Len(sg.scored) >= sg.count \/ sg.attempts >= 20 * sg.count

\* C20: generateRandomSuggestions makes at most 20 * count attempts, every
\* turn of its loop counting as one, also the turn that draws a suffix
\* already tried; it keeps at most count suggestions, no suffix twice, none
\* without an available district and, with excludeClub, none with an X; and
\* it comes to an end.
C20_BoundedDraws ==
    /\ []C20Inv
    /\ [][C20Step]_vars
    /\ (C20Random /\ sg.pc = "drawing" ~> sg.pc = "done")

\* the attempts ran out with one suggestion short of the count, after a taken
\* suffix had been drawn
C20_Witness ==
    /\ C20Random /\ sg.pc = "done" /\ sg.error = ""
    /\ sg.count = 2 /\ sg.attempts = 40
    /\ Len(sg.result) = 1
    /\ Cardinality(sg.tried) > 1

\* the index of the first record of list with the callsign
C21First(list, callsign) ==
    CHOOSE i \in 1..Len(list) :
       /\ list[i].callsign = callsign
       /\ \A j \in 1..(i - 1) : list[j].callsign # callsign

C21Inv ==
    pf.op = "deduplicateEntries"
       => /\ \A i, j \in 1..Len(pf.out) : i # j => pf.out[i].callsign # pf.out[j].callsign
          /\ \A i \in 1..Len(pf.arg) :
                \E k \in 1..Len(pf.out) : pf.out[k].callsign = pf.arg[i].callsign
          /\ \A k \in 1..Len(pf.out) :
                /\ \E i \in 1..Len(pf.arg) : pf.arg[i].callsign = pf.out[k].callsign
                /\ pf.out[k] = pf.arg[C21First(pf.arg, pf.out[k].callsign)]
          /\ \A k, l \in 1..Len(pf.out) :
                k < l => C21First(pf.arg, pf.out[k].callsign)
                            < C21First(pf.arg, pf.out[l].callsign)

C21Again ==
    pf.op = "deduplicateEntries" /\ pf'.op = "deduplicateEntries" => pf'.out = pf.out

\* C21: what deduplicateEntries returns is a subsequence of its input with
\* every callsign of the input exactly once, the record kept being the first
\* of its callsign; applied to its own result it returns the same list.
C21_FirstOccurrenceKept == []C21Inv /\ [][C21Again]_vars

\* a list was cut down: a second holder of a callsign, with another name, went
C21_Witness ==
    /\ pf.op = "deduplicateEntries"
    /\ Len(pf.out) >= 2 /\ Len(pf.out) < Len(pf.arg)
    /\ \E i, j \in 1..Len(pf.arg) :
          /\ i < j /\ pf.arg[i].callsign = pf.arg[j].callsign
          /\ pf.arg[i].name # pf.arg[j].name

\* the place of a character in the code-unit order: digits, then capitals
C22Code(c) ==
    LET order == DigitSeq \o UpperSeq
    IN CHOOSE i \in 1..Len(order) : order[i] = c

\* a <= b in lexicographic order
RECURSIVE C22Leq(_, _)
C22Leq(a, b) ==
    IF a = <<>> THEN TRUE
    ELSE IF b = <<>> THEN FALSE
    ELSE IF Head(a) # Head(b) THEN C22Code(Head(a)) < C22Code(Head(b))
    ELSE C22Leq(Tail(a), Tail(b))

C22Times(list, e) == Cardinality({ i \in 1..Len(list) : list[i] = e })

C23Marked(raw) ==
    raw.name = <<"*","-","*","-","*">> \/ includes(raw.name, <<"*","-","*","-","*">>)

C23Blank(record) ==
    record.name = <<>> /\ record.qth = <<>> /\ record.plz = <<>> /\ record.address = <<>>

\* r1 and r2 differ in location and address at most
C23Alike(r1, r2) ==
    r1.callsign = r2.callsign /\ r1.name = r2.name /\ r1.licenseClass = r2.licenseClass

C23Checked ==
    /\ rq.pc = "done" /\ rq.error = ""
    /\ rq.op \in {"checkAvailability", "checkSuffixAvailability"}

\* C23: a record of normalizeEntry is hidden exactly when the raw name is or
\* contains *-*-*; a hidden record has empty name, qth, plz and address, so
\* two rows with a hidden name that differ in location and address only give
\* the same record; and the availability check names the holder of a hidden
\* record [versteckt].
C23_HiddenBlanked ==
    /\ pf.op = "normalizeEntry"
          => /\ \A k \in 1..2 :
                   pf.out[k] # <<>>
                      => /\ pf.out[k][1].isHidden = C23Marked(pf.arg[k])
                         /\ pf.out[k][1].isHidden => C23Blank(pf.out[k][1])
             /\ C23Marked(pf.arg[1]) /\ C23Alike(pf.arg[1], pf.arg[2])
                   => pf.out[1] = pf.out[2]
    /\ C23Checked
          => \A k \in 1..Len(rq.avail.taken_by) :
                LET holder == FindEntry(Database(cachedDatabase), rq.avail.taken_by[k].callsign)
                IN /\ holder # <<>>
                   /\ holder[1].isHidden
                         => rq.avail.taken_by[k].name = <<"[","v","e","r","s","t","e","c","k","t","]">>
                   /\ ~holder[1].isHidden => rq.avail.taken_by[k].name = holder[1].name

\* two rows with the marker inside the name, apart in location and address,
\* gave one and the same hidden record, and the availability check reported
\* a hidden holder
C23_Witness ==
    /\ pf.op = "normalizeEntry"
    /\ pf.arg[1].name # <<"*","-","*","-","*">> /\ C23Marked(pf.arg[1])
    /\ C23Alike(pf.arg[1], pf.arg[2])
    /\ pf.arg[1].location # pf.arg[2].location /\ pf.arg[1].address # pf.arg[2].address
    /\ pf.arg[2].location # <<"*","-","*","-","*">> /\ pf.arg[2].address # <<"*","-","*","-","*">>
    /\ pf.out[1] # <<>> /\ pf.out[1] = pf.out[2]
    /\ C23Checked
    /\ \E k \in 1..Len(rq.avail.taken_by) :
          rq.avail.taken_by[k].name = <<"[","v","e","r","s","t","e","c","k","t","]">>

\* the errors of the report that say district d has no entries
C24Missing(report, d) ==
    Cardinality({ k \in 1..Len(report.errors) :
                    report.errors[k].kind = "nodistrict" /\ report.errors[k].district = d })

C24Records(entries, d) ==
    Cardinality({ i \in 1..Len(entries) : entries[i].district = d })

\* C24: validateDatabase reports exactly one error naming d for every district
\* d of 1..9 the database has no record of, none for a district of 1..9 with
\* a record, and none for district 0, whether it has records or not.
C24_MissingDistricts ==
    pf.op = "validateDatabase"
       => /\ \A d \in 1..9 :
                C24Missing(pf.out, d) = (IF C24Records(pf.arg, d) = 0 THEN 1 ELSE 0)
          /\ \A k \in 1..Len(pf.out.errors) :
                pf.out.errors[k].kind = "nodistrict" => pf.out.errors[k].district \in 1..9

\* a database with records of every district but 0 and 9: one error, for 9
C24_Witness ==
    /\ pf.op = "validateDatabase"
    /\ \A d \in 1..8 : C24Records(pf.arg, d) > 0
    /\ C24Records(pf.arg, 0) = 0 /\ C24Records(pf.arg, 9) = 0
    /\ Len(pf.out.errors) = 1
    /\ pf.out.errors[1].kind = "nodistrict" /\ pf.out.errors[1].district = 9

C25Consistent(e) ==
    /\ e.callsign = e.prefix \o << DigitSeq[e.district + 1] >> \o e.suffix
    /\ e.callsign[3] = DigitSeq[e.district + 1]

\* C25: the database main() assembles with normalizeAll, deduplicateEntries and
\* sortEntries gets no duplicate, format, district-mismatch or invalid-district
\* error from validateDatabase, only errors for missing districts: every
\* record is prefix, district digit and suffix, with the district the digit at
\* the third place.
C25_PipelineErrors ==
    pf.op = "main"
       => /\ \A k \in 1..Len(pf.out.validation.errors) :
                pf.out.validation.errors[k].kind = "nodistrict"
          /\ \A i \in 1..Len(pf.out.entries) :
                pf.out.entries[i].district \in 0..9 /\ C25Consistent(pf.out.entries[i])

\* three rows, one callsign twice and one malformed, were assembled into a
\* database of one record, which lacks eight districts
C25_Witness ==
    /\ pf.op = "main"
    /\ Len(pf.arg) = 3
    /\ pf.arg[1].callsign = pf.arg[3].callsign
    /\ ~MatchesCallsignStructure(pf.arg[2].callsign)
    /\ Len(pf.out.entries) = 1
    /\ Len(pf.out.validation.errors) = 8

\* C26: every record of normalizeEntry has a licenseClass of 1..4; a raw class
\* that is no digit of 1..4 gives the default 1.
C26_ClassInRange ==
    pf.op = "extractFromPdf"
       => \A i \in 1..Len(pf.out.entries) : pf.out.entries[i].licenseClass \in 1..4

\* the text of the line behind the callsign
C30Rest(line) ==
    LET trimmed == trim(line)
    IN trimStart(SubSeq(trimmed, CallsignLength(trimmed) + 1, Len(trimmed)))

\* C30: the row parseCallsignLine builds from a line without the hidden marker
\* that ends in white space and a digit of 1..4 has that digit as its
\* licenseClass, whichever way the line was taken apart.
C30_ClassFromLine ==
    /\ pf.op = "extractFromPdf"
    /\ pf.out.rows # <<>>
    /\ ~includes(pf.arg, <<"*","-","*","-","*">>)
    /\ EndsInClass(C30Rest(pf.arg))
    => pf.out.rows[1].licenseClass = << C30Rest(pf.arg)[Len(C30Rest(pf.arg))] >>

\* the tokens of the name that are no titles
C27Tokens(name) ==
    SelectSeq(splitWs(name), LAMBDA p : toUpperCase(p) \notin Titles)

\* every token cased on its own, the given names first
C27PerToken(tokens) ==
    join([i \in 1..(Len(tokens) - 1) |-> formatName(tokens[i + 1])], <<" ">>)
       \o <<" ">> \o formatName(tokens[1])

\* C27: for a name with two or more tokens that are no titles normalizeName
\* gives the tokens after the first, then the first, each token cased on its
\* own (hyphenated segments one by one, prepositions in lower case, the rest
\* with a capital first letter), so that every given name is capitalised.
C27_PerTokenCasing ==
    pf.op = "normalizeName" /\ Len(C27Tokens(pf.arg)) >= 2
       => pf.out = C27PerToken(C27Tokens(pf.arg))

\* the chain of the call r: the database was read and does not hold the
\* callsign, and every service asked after it failed
C28AllFailed(r) ==
    /\ Len(r.trace) >= 2
    /\ r.trace[1].src = "local" /\ ~r.trace[1].exists
    /\ \A i \in 2..Len(r.trace) : r.trace[i].failed

\* the step in which such a call returns: not found, no warning, and with
\* caching enabled the result is stored under the callsign at the current time
C28Ends ==
    LookupEnds /\ lk'.error = "" /\ C28AllFailed(lk')
       => /\ lk'.result = [exists |-> FALSE, source |-> "not_found",
                           warning |-> "undefined", data |-> <<>>]
          /\ config.cacheEnabled
                => /\ lk'.cs \in DOMAIN lookupCache'
                   /\ lookupCache'[lk'.cs] = [result |-> lk'.result, timestamp |-> now]

\* a call for a callsign with a live negative entry
C28CalledOnNegative ==
    /\ C2Called
    /\ C2Fresh(lk'.cs)
    /\ ~lookupCache[lk'.cs].result.exists

\* the call returns the entry at once: no source is asked
C28Answered ==
    /\ lk'.pc = "done" /\ lk'.error = ""
    /\ lk'.trace = <<>>
    /\ lk'.result = lookupCache[lk'.cs].result
    /\ lk'.result.source = "not_found"
    /\ UNCHANGED << lookupCache, qrzSession, hamqthSession >>

\* C28 (as stated): a call for a callsign the database does not hold, with
\* every service asked failing, returns exists = false, source not_found and
\* no warning, and with caching enabled stores it; every later call for the
\* callsign within the lifetime returns not found and asks no source.
C28_AnyLaterCall ==
    [][ /\ C28Ends
        /\ C28CalledOnNegative => C28Answered ]_vars

\* C28 (amended): the same, for later calls that do not set skipCache; a call
\* that sets it asks the sources again and leaves the entry where it is.
C28_NegativeCached ==
    [][ /\ C28Ends
        /\ C28CalledOnNegative /\ ~lk'.skipCache => C28Answered
        /\ C28CalledOnNegative /\ lk'.skipCache => C2Bypassed ]_vars

\* QRZ and HamQTH were asked and both failed; the call has returned not found
\* and the cache holds the negative entry
C28_Witness ==
    /\ lk.pc = "done" /\ lk.error = ""
    /\ C28AllFailed(lk) /\ Len(lk.trace) = 3
    /\ lk.result.source = "not_found" /\ lk.result.warning = "undefined"
    /\ lk.cs \in DOMAIN lookupCache
    /\ lookupCache[lk.cs] = [result |-> lk.result, timestamp |-> now]
    /\ now > 0

\* a LookupResult as types.ts means it
C29WellFormed(result) ==
    /\ result.exists <=> result.data # <<>>
    /\ result.exists
          => /\ result.source \in {"fb", "qrz", "hamqth"}
             /\ result.data[1].source = result.source
    /\ ~result.exists <=> result.source = "not_found"

C29Inv ==
    /\ lk.pc = "done" /\ lk.error = "" => C29WellFormed(lk.result)
    /\ \A k \in DOMAIN lookupCache : C29WellFormed(lookupCache[k].result)

\* a result of source fb that a resolution returns or writes to the cache
\* stands for a record of the snapshot the resolution read
C29Local ==
    /\ LookupEnds /\ lk'.error = "" /\ lk'.trace # <<>> /\ lk'.result.source = "fb"
          => /\ cachedDatabase' # "null"
             /\ FindEntry(Database(cachedDatabase'), lk'.cs) # <<>>
    /\ \A k \in DOMAIN lookupCache' :
          /\ k \notin DOMAIN lookupCache \/ lookupCache'[k] # lookupCache[k]
          /\ lookupCache'[k].result.source = "fb"
          => /\ cachedDatabase' # "null"
             /\ FindEntry(Database(cachedDatabase'), k) # <<>>

\* C29: every result lookupCallsign returns and every result in the lookup
\* cache has exists = true exactly when it has data, then with a source of fb,
\* qrz or hamqth that is the source of the data as well, and exists = false
\* exactly when the source is not_found; a result of source fb comes from a
\* snapshot of the database that held the normalized callsign.
C29_WellFormedResults == []C29Inv /\ [][C29Local]_vars

\* a callsign of the database was resolved: found, from fb, and cached
C29_Witness ==
    /\ lk.pc = "done" /\ lk.error = "" /\ lk.trace # <<>>
    /\ lk.result.exists /\ lk.result.source = "fb"
    /\ lk.result.data[1].source = "fb"
    /\ lk.cs \in DOMAIN lookupCache
    /\ lookupCache[lk.cs].result = lk.result
====
